---- MODULE Spec2Model ----
(***************************************************************************)
(* A model of the JSON transformation and line-filtering functions of the  *)
(* NDJSON preview extension (src/src/utils/filterUtils.ts).                *)
(*                                                                         *)
(* JavaScript values are tagged records [t |-> tag, v |-> payload]; the    *)
(* payload is always a sequence.  Strings are sequences of code points, so *)
(* that percent-decoding, JSON parsing and path splitting are computed     *)
(* character by character.  An object is the sequence of its own           *)
(* enumerable properties in the order Object.keys reports them.            *)
(***************************************************************************)
EXTENDS Integers, Sequences, FiniteSets, TLC

VARIABLES
    pc,        \* "ready" before the call, then the name of the function called
    obj,       \* the value argument (obj / json)
    order,     \* the order argument of applyCustomOrder
    maxDepth,  \* the maxDepth argument of decodeUriStrings
    filters,   \* the filters argument of matchesAllFilters / filterLines
    lines,     \* the lines argument of filterLines
    nestedKey, \* the key argument of getNestedValue
    result,    \* what the call returned
    unwraps,   \* how deep the call nested embedded-JSON unwraps (0 before it)
    \* the PreviewPanel object
    panel,              \* this.panel: 0 (undefined) or the webview panel
    lastEditor,         \* this.lastEditor: 0 (undefined) or an editor
    filteredDocument,   \* this.filteredDocument: 0 (undefined) or a document
    state,              \* this.state
    \* the host
    phase,              \* "constructed", then "active" once activate() returned
    globalState,        \* what is stored under 'ndjson-preview.customOrder'
    activeTextEditor,   \* vscode.window.activeTextEditor: 0 or an editor
    visibleTextEditors, \* vscode.window.visibleTextEditors
    selection,          \* the active line of each editor
    documents,          \* the text documents; editor n shows document n
    panels,             \* the webview panels that exist
    html,               \* webview.html of the panel
    decorations,        \* the lines decorated in each editor
    notice,             \* what the last step reported to the user
    shown,              \* what show() did in the last step
    closing,            \* closeActiveEditor commands not yet executed
    tasks,              \* createFilteredView calls waiting at an await
    steps,              \* how many steps were taken
    \* the calls seen with objects and arrays as cells of a heap
    heap,               \* the cells: heap[a] is the object or array at a
    args,               \* the arguments of the call, as stored in heap
    ret                 \* what the call returned, as stored in heap

callVars ==
    <<pc, obj, order, maxDepth, filters, lines, nestedKey, result, unwraps>>

panelVars ==
    <<panel, lastEditor, filteredDocument, state, phase, globalState,
      activeTextEditor, visibleTextEditors, selection, documents, panels,
      html, decorations, notice, shown, closing, tasks, steps>>

heapVars == <<heap, args, ret>>

vars == <<callVars, panelVars, heapVars>>

----------------------------------------------------------------------------
(* Characters (code points) and the strings the inputs are built from.     *)

Ch == [ tab |-> 9, lf |-> 10, cr |-> 13, space |-> 32, quote |-> 34,
        hash |-> 35, percent |-> 37, amp |-> 38, apos |-> 39, comma |-> 44, minus |-> 45, dot |-> 46, slash |-> 47,
        zero |-> 48, one |-> 49, two |-> 50, three |-> 51, nine |-> 57,
        colon |-> 58, semicolon |-> 59, lt |-> 60, gt |-> 62,
        A |-> 65, E |-> 69, F |-> 70, J |-> 74, N |-> 78, O |-> 79, S |-> 83, Z |-> 90, lbracket |-> 91, backslash |-> 92,
        rbracket |-> 93, underscore |-> 95,
        a |-> 97, b |-> 98, c |-> 99, d |-> 100, e |-> 101, f |-> 102,
        g |-> 103, h |-> 104, i |-> 105, j |-> 106, k |-> 107, l |-> 108,
        m |-> 109, n |-> 110,
        o |-> 111, p |-> 112, q |-> 113, r |-> 114, s |-> 115, t |-> 116, u |-> 117,
        v |-> 118, x |-> 120, y |-> 121, z |-> 122, lbrace |-> 123, rbrace |-> 125 ]

S_a           == << Ch.a >>
S_b           == << Ch.b >>
S_x           == << Ch.x >>
S_z           == << Ch.z >>
S_0           == << Ch.zero >>
S_1           == << Ch.one >>
S_2           == << Ch.two >>
S_proto       == << Ch.underscore, Ch.underscore, Ch.p, Ch.r, Ch.o, Ch.t, Ch.o,
                    Ch.underscore, Ch.underscore >>
S_toString    == << Ch.t, Ch.o, Ch.S, Ch.t, Ch.r, Ch.i, Ch.n, Ch.g >>
S_valueOf     == << Ch.v, Ch.a, Ch.l, Ch.u, Ch.e, Ch.O, Ch.f >>
S_length      == << Ch.l, Ch.e, Ch.n, Ch.g, Ch.t, Ch.h >>
S_null        == << Ch.n, Ch.u, Ch.l, Ch.l >>
S_true        == << Ch.t, Ch.r, Ch.u, Ch.e >>
S_false       == << Ch.f, Ch.a, Ch.l, Ch.s, Ch.e >>
S_undefined   == << Ch.u, Ch.n, Ch.d, Ch.e, Ch.f, Ch.i, Ch.n, Ch.e, Ch.d >>
S_objectObject == << Ch.lbracket, Ch.o, Ch.b, Ch.j, Ch.e, Ch.c, Ch.t, Ch.space,
                     Ch.O, Ch.b, Ch.j, Ch.e, Ch.c, Ch.t, Ch.rbracket >>

----------------------------------------------------------------------------
(* JavaScript values.                                                      *)

Undefined == [t |-> "undefined", v |-> << >>]
Null      == [t |-> "null", v |-> << >>]
Bool(b)   == [t |-> "boolean", v |-> << b >>]
Num(n)    == [t |-> "number", v |-> << n >>]
Str(s)    == [t |-> "string", v |-> s]
Arr(xs)   == [t |-> "array", v |-> xs]
Obj(es)   == [t |-> "object", v |-> es]
Prop(k, x) == [k |-> k, v |-> x]

\* value !== null && typeof value === 'object'
IsContainer(x) == x.t \in {"object", "array"}

\* Object.keys(o): the own keys, in own-property order
Keys(es) == [i \in DOMAIN es |-> es[i].k]

KeySet(es) == {es[i].k : i \in DOMAIN es}

\* Object.prototype.hasOwnProperty.call(o, k)
HasOwn(es, k) == \E i \in DOMAIN es : es[i].k = k

\* o[k] for an own property k
Get(es, k) == es[CHOOSE i \in DOMAIN es : es[i].k = k].v

IndexOfKey(es, k) == CHOOSE i \in DOMAIN es : es[i].k = k

IsDigit(ch) == ch \in Ch.zero .. Ch.nine

\* a < b for digit strings of the same length
RECURSIVE LexLess(_, _)
LexLess(a, b) ==
    IF a = << >> THEN FALSE
    ELSE IF Head(a) # Head(b) THEN Head(a) < Head(b)
    ELSE LexLess(Tail(a), Tail(b))

\* a < b for canonical numeric strings (no leading zero)
NumLess(a, b) == Len(a) < Len(b) \/ (Len(a) = Len(b) /\ LexLess(a, b))

\* "4294967295", that is 2^32 - 1
S_2pow32m1 == << 52, 50, 57, 52, 57, 54, 55, 50, 57, 53 >>

\* A canonical numeric string below 2^32 - 1: such keys are listed first, in
\* ascending numeric order, whatever the order they were created in.
IsArrayIndex(k) ==
    /\ k # << >>
    /\ \A i \in DOMAIN k : IsDigit(k[i])
    /\ (Len(k) > 1 => k[1] # Ch.zero)
    /\ NumLess(k, S_2pow32m1)

\* Where a new property named k goes among the own properties es.
InsertAt(es, k) ==
    IF IsArrayIndex(k)
    THEN LET later == {i \in DOMAIN es :
                          \/ ~IsArrayIndex(es[i].k)
                          \/ NumLess(k, es[i].k)}
         IN  IF later = {} THEN Len(es) + 1
             ELSE CHOOSE i \in later : \A j \in later : i <= j
    ELSE Len(es) + 1

\* CreateDataProperty(o, k, x): what JSON.parse and object spread do for
\* each member.  An existing property keeps its place.
ObjDefine(es, k, x) ==
    IF HasOwn(es, k)
    THEN [es EXCEPT ![IndexOfKey(es, k)] = Prop(k, x)]
    ELSE LET at == InsertAt(es, k)
         IN  SubSeq(es, 1, at - 1) \o << Prop(k, x) >> \o SubSeq(es, at, Len(es))

\* const o = {}: no own property; the __proto__ accessor of Object.prototype
\* is inherited (setter).
NewObject == [own |-> << >>, setter |-> TRUE]

\* the new property put before the properties there are
ObjAssignFirst(o, k, x) ==
    [own |-> << Prop(k, x) >> \o o.own, setter |-> o.setter]

\* o[k] = x on an object that was created by an object literal.  While o has
\* no own property "__proto__" and still inherits the accessor, the
\* assignment runs the __proto__ setter: it changes the prototype (x an
\* object, an array or null) or does nothing (any other x), and creates no
\* own property.  After it, the accessor is still inherited unless the new
\* prototype is null or is an object with an own data property "__proto__".
ObjAssign(o, k, x) ==
    IF k = S_proto /\ ~HasOwn(o.own, k) /\ o.setter
    THEN [own |-> o.own,
          setter |-> CASE x.t = "null"   -> FALSE
                       [] x.t = "object" -> ~HasOwn(x.v, S_proto)
                       [] OTHER          -> TRUE]
    ELSE [own |-> ObjDefine(o.own, k, x), setter |-> o.setter]

RECURSIVE DefineAll(_, _)
DefineAll(es, src) ==
    IF src = << >> THEN es
    ELSE DefineAll(ObjDefine(es, Head(src).k, Head(src).v), Tail(src))

\* { ...first, ...second }
Spread(first, second) == DefineAll(DefineAll(<< >>, first), second)

\* The object JSON.parse builds from members in text order.
ObjOf(members) == Obj(DefineAll(<< >>, members))

----------------------------------------------------------------------------
(* Key reordering.                                                         *)

RECURSIVE reorderJsonKeys(_)
RECURSIVE ReorderLoop(_, _, _, _)
RECURSIVE applyCustomOrder(_, _)
RECURSIVE OrderedLoop(_, _, _, _)
RECURSIVE RemainingLoop(_, _, _, _)

\* for (const key of Object.keys(record)) { ... } of reorderJsonKeys, from
\* the i-th key on; primitives and objects are the two accumulators.
ReorderLoop(record, i, primitives, objects) ==
    IF i > Len(record)
    THEN [primitives |-> primitives.own, objects |-> objects.own]
    ELSE LET key   == record[i].k
             value == record[i].v
         IN  IF IsContainer(value)
             THEN ReorderLoop(record, i + 1, primitives,
                              ObjAssign(objects, key, reorderJsonKeys(value)))
             ELSE ReorderLoop(record, i + 1,
                              ObjAssign(primitives, key, value), objects)

reorderJsonKeys(o) ==
    IF ~IsContainer(o) THEN o
    ELSE IF o.t = "array"
    THEN Arr([i \in DOMAIN o.v |-> reorderJsonKeys(o.v[i])])
    ELSE LET b == ReorderLoop(o.v, 1, NewObject, NewObject)
         IN  Obj(Spread(b.primitives, b.objects))

\* order.includes(key)
Includes(ord, key) == \E i \in DOMAIN ord : ord[i] = key

\* for (const key of order) { ... } of applyCustomOrder, from the i-th name on
OrderedLoop(record, ord, i, ordered) ==
    IF i > Len(ord) THEN ordered.own
    ELSE LET key == ord[i]
         IN  IF HasOwn(record, key)
             THEN LET value == Get(record, key)
                  IN  OrderedLoop(record, ord, i + 1,
                          ObjAssign(ordered, key,
                              IF IsContainer(value)
                              THEN applyCustomOrder(value, ord) ELSE value))
             ELSE OrderedLoop(record, ord, i + 1, ordered)

\* for (const key of Object.keys(record)) { ... } of applyCustomOrder
RemainingLoop(record, ord, i, remaining) ==
    IF i > Len(record) THEN remaining.own
    ELSE LET key   == record[i].k
             value == record[i].v
         IN  IF ~Includes(ord, key)
             THEN RemainingLoop(record, ord, i + 1,
                      ObjAssign(remaining, key,
                          IF IsContainer(value)
                          THEN applyCustomOrder(value, ord) ELSE value))
             ELSE RemainingLoop(record, ord, i + 1, remaining)

applyCustomOrder(o, ord) ==
    IF ~IsContainer(o) THEN o
    ELSE IF o.t = "array"
    THEN Arr([i \in DOMAIN o.v |-> applyCustomOrder(o.v[i], ord)])
    ELSE Obj(Spread(OrderedLoop(o.v, ord, 1, NewObject),
                    RemainingLoop(o.v, ord, 1, NewObject)))

----------------------------------------------------------------------------
(* decodeURIComponent, String.prototype.trimStart.                         *)

\* the value of a hexadecimal digit, -1 for any other character
HexVal(ch) ==
    CASE ch \in Ch.zero .. Ch.nine -> ch - Ch.zero
      [] ch \in Ch.A .. Ch.F       -> ch - Ch.A + 10
      [] ch \in Ch.a .. Ch.f       -> ch - Ch.a + 10
      [] OTHER                     -> -1

\* s has an escape %XX at position k
IsEscapeAt(s, k) ==
    /\ k + 2 <= Len(s)
    /\ s[k] = Ch.percent
    /\ HexVal(s[k + 1]) >= 0
    /\ HexVal(s[k + 2]) >= 0

ByteAt(s, k) == 16 * HexVal(s[k + 1]) + HexVal(s[k + 2])

\* the number of octets of the UTF-8 sequence that starts with octet b
\* (0: b cannot start a sequence)
Utf8Length(b) ==
    CASE b < 128             -> 1
      [] b \in 192 .. 223    -> 2
      [] b \in 224 .. 239    -> 3
      [] b \in 240 .. 247    -> 4
      [] OTHER               -> 0

\* the escapes %XX of the n - 1 continuation octets after position k
ContinuationsOk(s, k, n) ==
    \A m \in 1 .. n - 1 :
        /\ IsEscapeAt(s, k + 3 * m)
        /\ ByteAt(s, k + 3 * m) \in 128 .. 191

RECURSIVE Utf8Bits(_, _, _, _)
Utf8Bits(s, k, m, acc) ==
    IF m = 0 THEN acc
    ELSE Utf8Bits(s, k + 3, m - 1, acc * 64 + (ByteAt(s, k + 3) - 128))

\* the code point of the n-octet sequence escaped at position k
Utf8CodePoint(s, k, n) ==
    LET b == ByteAt(s, k)
        lead == CASE n = 2 -> b - 192 [] n = 3 -> b - 224 [] OTHER -> b - 240
    IN  Utf8Bits(s, k, n - 1, lead)

\* the shortest-form and range conditions of UTF-8
Utf8Valid(cp, n) ==
    CASE n = 2 -> cp >= 128
      [] n = 3 -> cp >= 2048 /\ cp \notin 55296 .. 57343
      [] OTHER -> cp >= 65536 /\ cp <= 1114111

\* the UTF-16 code units of a code point
CodeUnits(cp) ==
    IF cp < 65536 THEN << cp >>
    ELSE << 55296 + ((cp - 65536) \div 1024), 56320 + ((cp - 65536) % 1024) >>

\* decodeURIComponent from position k on; ok = FALSE stands for the URIError
RECURSIVE DecodeFrom(_, _, _)
DecodeFrom(s, k, acc) ==
    IF k > Len(s) THEN [ok |-> TRUE, s |-> acc]
    ELSE IF s[k] # Ch.percent THEN DecodeFrom(s, k + 1, Append(acc, s[k]))
    ELSE IF ~IsEscapeAt(s, k) THEN [ok |-> FALSE, s |-> acc]
    ELSE LET n == Utf8Length(ByteAt(s, k))
         IN  IF n = 1 THEN DecodeFrom(s, k + 3, Append(acc, ByteAt(s, k)))
             ELSE IF n = 0 \/ ~ContinuationsOk(s, k, n)
             THEN [ok |-> FALSE, s |-> acc]
             ELSE LET cp == Utf8CodePoint(s, k, n)
                  IN  IF Utf8Valid(cp, n)
                      THEN DecodeFrom(s, k + 3 * n, acc \o CodeUnits(cp))
                      ELSE [ok |-> FALSE, s |-> acc]

decodeURIComponent(s) == DecodeFrom(s, 1, << >>)

\* a catch block that keeps what was decoded before the malformed escape
DecodedOrPartial(s) == decodeURIComponent(s).s

\* try { decoded = decodeURIComponent(obj) } catch { decoded = obj }
DecodedOrOriginal(s) ==
    LET d == decodeURIComponent(s) IN IF d.ok THEN d.s ELSE s

\* WhiteSpace and LineTerminator code points, which trimStart removes
IsJsWhiteSpace(ch) ==
    \/ ch \in {9, 10, 11, 12, 13, 32, 160, 5760, 8232, 8233, 8239, 8287,
               12288, 65279}
    \/ ch \in 8192 .. 8202

RECURSIVE trimStart(_)
trimStart(s) ==
    IF s # << >> /\ IsJsWhiteSpace(Head(s)) THEN trimStart(Tail(s)) ELSE s

RECURSIVE trimEnd(_)
trimEnd(s) ==
    IF s # << >> /\ IsJsWhiteSpace(s[Len(s)])
    THEN trimEnd(SubSeq(s, 1, Len(s) - 1)) ELSE s

\* the line as it is, white space and all
untrimmed(s) == s

\* line.trim()
trim(s) == trimEnd(trimStart(s))

\* every decoded string handed to JSON.parse
LooksLikeAnything(decoded) == TRUE

\* trimmed.length > 0 && (trimmed[0] === '{' || trimmed[0] === '[')
LooksLikeJson(decoded) ==
    LET trimmed == trimStart(decoded)
    IN  Len(trimmed) > 0 /\ (trimmed[1] = Ch.lbrace \/ trimmed[1] = Ch.lbracket)

----------------------------------------------------------------------------
(* JSON.parse.  A parse returns [ok, val, pos]: whether the text from the  *)
(* start position is well formed, the value, and the position after it;    *)
(* ok = FALSE stands for the SyntaxError.  Numerals are integers: a text   *)
(* with a fraction or an exponent has no value in this model (Unmodelled). *)

ParseFail == [ok |-> FALSE, val |-> Undefined, pos |-> 0]
Parsed(x, p) == [ok |-> TRUE, val |-> x, pos |-> p]

Unmodelled == CHOOSE x \in {} : TRUE

\* JSON white space: space, tab, line feed, carriage return
IsJsonWhiteSpace(ch) == ch \in {Ch.space, Ch.tab, Ch.lf, Ch.cr}

RECURSIVE SkipWs(_, _)
SkipWs(s, i) ==
    IF i <= Len(s) /\ IsJsonWhiteSpace(s[i]) THEN SkipWs(s, i + 1) ELSE i

\* the text w stands at position i of s
HasWordAt(s, i, w) ==
    /\ i + Len(w) - 1 <= Len(s)
    /\ SubSeq(s, i, i + Len(w) - 1) = w

RECURSIVE DigitsEnd(_, _)
DigitsEnd(s, i) ==
    IF i <= Len(s) /\ IsDigit(s[i]) THEN DigitsEnd(s, i + 1) ELSE i

RECURSIVE DecValue(_)
DecValue(s) ==
    IF s = << >> THEN 0
    ELSE 10 * DecValue(SubSeq(s, 1, Len(s) - 1)) + (s[Len(s)] - Ch.zero)

\* the numeral whose digits stand at first .. last - 1
NumberAt(s, neg, first, last) ==
    IF last = first THEN ParseFail
    ELSE IF s[first] = Ch.zero /\ last > first + 1 THEN ParseFail
    ELSE IF last <= Len(s) /\ s[last] \in {Ch.dot, Ch.e, Ch.E}
    THEN Unmodelled
    ELSE IF neg
    THEN Parsed(Num(0 - DecValue(SubSeq(s, first, last - 1))), last)
    ELSE Parsed(Num(DecValue(SubSeq(s, first, last - 1))), last)

\* -? (0 | [1-9][0-9]*) at position i
ParseNumber(s, i) ==
    IF s[i] = Ch.minus
    THEN NumberAt(s, TRUE, i + 1, DigitsEnd(s, i + 1))
    ELSE NumberAt(s, FALSE, i, DigitsEnd(s, i))

\* the character a two-character escape \c stands for (-1: none)
SimpleEscape(ch) ==
    CASE ch \in {Ch.quote, Ch.backslash, Ch.slash} -> ch
      [] ch = Ch.b -> 8
      [] ch = Ch.f -> 12
      [] ch = Ch.n -> 10
      [] ch = Ch.r -> 13
      [] ch = Ch.t -> 9
      [] OTHER     -> -1

\* the characters of a string literal whose opening quote is before position
\* i; val is the string value
RECURSIVE ParseChars(_, _, _)
ParseChars(s, i, acc) ==
    IF i > Len(s) THEN ParseFail
    ELSE IF s[i] = Ch.quote THEN Parsed(Str(acc), i + 1)
    ELSE IF s[i] < 32 THEN ParseFail
    ELSE IF s[i] # Ch.backslash THEN ParseChars(s, i + 1, Append(acc, s[i]))
    ELSE IF i + 1 > Len(s) THEN ParseFail
    ELSE IF s[i + 1] = Ch.u
    THEN IF i + 5 <= Len(s) /\ \A m \in 2 .. 5 : HexVal(s[i + m]) >= 0
         THEN ParseChars(s, i + 6,
                  Append(acc, 4096 * HexVal(s[i + 2]) + 256 * HexVal(s[i + 3])
                              + 16 * HexVal(s[i + 4]) + HexVal(s[i + 5])))
         ELSE ParseFail
    ELSE IF SimpleEscape(s[i + 1]) >= 0
    THEN ParseChars(s, i + 2, Append(acc, SimpleEscape(s[i + 1])))
    ELSE ParseFail

RECURSIVE ParseValue(_, _)
RECURSIVE ParseElements(_, _, _)
RECURSIVE ParseMembers(_, _, _)

\* after the element e of an array: ',' and the next element, or ']'
ElementEnd(s, acc, e) ==
    IF ~e.ok \/ e.pos > Len(s) THEN ParseFail
    ELSE IF s[e.pos] = Ch.comma
    THEN ParseElements(s, e.pos + 1, Append(acc, e.val))
    ELSE IF s[e.pos] = Ch.rbracket
    THEN Parsed(Arr(Append(acc, e.val)), e.pos + 1)
    ELSE ParseFail

\* the elements of an array from position i on (after '[' or ','), up to ']'
ParseElements(s, i, acc) == ElementEnd(s, acc, ParseValue(s, i))

\* after the value x of the member named k: ',' and the next member, or '}';
\* each member is defined on the object in text order
MemberEnd(s, acc, k, x) ==
    IF ~x.ok \/ x.pos > Len(s) THEN ParseFail
    ELSE IF s[x.pos] = Ch.comma
    THEN ParseMembers(s, x.pos + 1, ObjDefine(acc, k, x.val))
    ELSE IF s[x.pos] = Ch.rbrace
    THEN Parsed(Obj(ObjDefine(acc, k, x.val)), x.pos + 1)
    ELSE ParseFail

\* the ':' at position col and the value of the member named k
MemberValue(s, acc, k, col) ==
    IF col > Len(s) \/ s[col] # Ch.colon THEN ParseFail
    ELSE MemberEnd(s, acc, k, ParseValue(s, col + 1))

\* after the name of a member
MemberColon(s, acc, name) ==
    IF ~name.ok THEN ParseFail
    ELSE MemberValue(s, acc, name.val.v, SkipWs(s, name.pos))

\* the name of a member, whose opening quote is at position q
MemberName(s, acc, q) ==
    IF q > Len(s) \/ s[q] # Ch.quote THEN ParseFail
    ELSE MemberColon(s, acc, ParseChars(s, q + 1, << >>))

\* the members of an object from position i on (after '{' or ','), up to '}'
ParseMembers(s, i, acc) == MemberName(s, acc, SkipWs(s, i))

\* '{' at position p: q is the position after the white space that follows
ObjectAt(s, p, q) ==
    IF q <= Len(s) /\ s[q] = Ch.rbrace
    THEN Parsed(Obj(<< >>), q + 1)
    ELSE ParseMembers(s, p + 1, << >>)

\* '[' at position p: q is the position after the white space that follows
ArrayAt(s, p, q) ==
    IF q <= Len(s) /\ s[q] = Ch.rbracket
    THEN Parsed(Arr(<< >>), q + 1)
    ELSE ParseElements(s, p + 1, << >>)

\* the value that starts at position p
ValueAt(s, p) ==
    IF p > Len(s) THEN ParseFail
    ELSE CASE s[p] = Ch.lbrace -> ObjectAt(s, p, SkipWs(s, p + 1))
           [] s[p] = Ch.lbracket -> ArrayAt(s, p, SkipWs(s, p + 1))
           [] s[p] = Ch.quote -> ParseChars(s, p + 1, << >>)
           [] s[p] = Ch.minus \/ IsDigit(s[p]) -> ParseNumber(s, p)
           [] HasWordAt(s, p, S_true) -> Parsed(Bool(TRUE), p + 4)
           [] HasWordAt(s, p, S_false) -> Parsed(Bool(FALSE), p + 5)
           [] HasWordAt(s, p, S_null) -> Parsed(Null, p + 4)
           [] OTHER -> ParseFail

\* the white space after the value r
TrailingWs(s, r) ==
    IF r.ok THEN Parsed(r.val, SkipWs(s, r.pos)) ELSE ParseFail

\* a value with the white space around it; pos is the position after the
\* white space that follows the value
ParseValue(s, i) == TrailingWs(s, ValueAt(s, SkipWs(s, i)))

\* the whole text has to be one value
WholeText(text, r) ==
    IF r.ok /\ r.pos > Len(text) THEN r ELSE ParseFail

\* JSON.parse(text): ok = FALSE when it throws
JSONparse(text) == WholeText(text, ParseValue(text, 1))

----------------------------------------------------------------------------
(* decodeUriStrings.  A run returns the value and, beside it, the deepest  *)
(* nesting of embedded-JSON unwraps it performed along one path.           *)

Ran(x, n) == [val |-> x, unwraps |-> n]

Max(a, b) == IF a >= b THEN a ELSE b

\* the guard written maxDepth < 0
BudgetBelowZero(depth) == depth < 0

\* if (maxDepth <= 0) return obj
BudgetExhausted(depth) == depth <= 0

\* a budget that going into an array or an object would use up
OneLess(depth) == depth - 1

\* the maxDepth handed on for an item of an array and for a member of an
\* object: decodeUriStrings(item, maxDepth)
HandedOn(depth) == depth

RECURSIVE DecodeRun(_, _)
RECURSIVE DecodeElements(_, _, _, _)
RECURSIVE DecodeMembers(_, _, _, _)

\* the array of the mapped items, with the run r of one more item
ItemMapped(acc, r) ==
    Ran(Append(acc.val, r.val), Max(acc.unwraps, r.unwraps))

\* obj.map(item => decodeUriStrings(item, maxDepth)), from the i-th item on
DecodeElements(items, depth, i, acc) ==
    IF i > Len(items) THEN Ran(Arr(acc.val), acc.unwraps)
    ELSE DecodeElements(items, depth, i + 1,
             ItemMapped(acc, DecodeRun(items[i], HandedOn(depth))))

\* result[key] = decodeUriStrings(record[key], maxDepth), r being its run
MemberAssigned(acc, key, r) ==
    Ran(ObjAssign(acc.val, key, r.val), Max(acc.unwraps, r.unwraps))

\* for (const key of Object.keys(record)) result[key] = ..., from the i-th
\* key on.  The object returned is result itself; only its own properties
\* are represented.
DecodeMembers(record, depth, i, acc) ==
    IF i > Len(record) THEN Ran(Obj(acc.val.own), acc.unwraps)
    ELSE DecodeMembers(record, depth, i + 1,
             MemberAssigned(acc, record[i].k,
                            DecodeRun(record[i].v, HandedOn(depth))))

\* return decodeUriStrings(parsed, maxDepth - 1): one more unwrap
Unwrapped(r) == Ran(r.val, r.unwraps + 1)

\* try { const parsed = JSON.parse(decoded); return decodeUriStrings(parsed,
\* maxDepth - 1) } catch {}  return decoded
ParsedOrDecoded(decoded, depth, parsed) ==
    IF parsed.ok
    THEN Unwrapped(DecodeRun(parsed.val, depth - 1))
    ELSE Ran(Str(decoded), 0)

\* the string case, after the percent-decoding
DecodeString(decoded, depth) ==
    IF LooksLikeJson(decoded)
    THEN ParsedOrDecoded(decoded, depth, JSONparse(decoded))
    ELSE Ran(Str(decoded), 0)

DecodeRun(o, depth) ==
    IF BudgetExhausted(depth) THEN Ran(o, 0)
    ELSE IF o.t \in {"null", "undefined"} THEN Ran(o, 0)
    ELSE IF o.t = "string" THEN DecodeString(DecodedOrOriginal(o.v), depth)
    ELSE IF o.t = "array" THEN DecodeElements(o.v, depth, 1, Ran(<< >>, 0))
    ELSE IF o.t = "object" THEN DecodeMembers(o.v, depth, 1, Ran(NewObject, 0))
    ELSE Ran(o, 0)

decodeUriStrings(o, depth) == DecodeRun(o, depth).val

----------------------------------------------------------------------------
(* Property access and string conversion, as getNestedValue and            *)
(* matchesAllFilters use them on the values JSON.parse returns.            *)

\* a function inherited from a built-in prototype
Builtin(name) == [t |-> "function", v |-> name]

\* the built-in prototype object of the values of one type
Prototype(kind) == [t |-> "prototype", v |-> << kind >>]

\* names that no built-in prototype defines
PlainNames == {<< >>, S_a, S_b, S_x, S_z, S_undefined}

\* x[k] where x, of type kind, has no own property named k.  length is
\* listed for the types without it; array and string have it as their own.
Inherited(kind, k) ==
    IF k = S_proto THEN Prototype(kind)
    ELSE IF k \in {S_toString, S_valueOf} THEN Builtin(k)
    ELSE IF k \in PlainNames \/ IsArrayIndex(k) \/ k = S_length THEN Undefined
    ELSE Unmodelled

RECURSIVE Digits(_)
Digits(n) ==
    IF n < 10 THEN << Ch.zero + n >>
    ELSE Append(Digits(n \div 10), Ch.zero + (n % 10))

\* Number::toString of an integer
NumberToString(n) ==
    IF n < 0 THEN << Ch.minus >> \o Digits(0 - n) ELSE Digits(n)

\* the positions of a sequence of n items that the property name k is the
\* index of (none or one)
IndexOf(k, n) == {i \in 1 .. n : NumberToString(i - 1) = k}

\* value[k]
GetProperty(value, k) ==
    CASE value.t = "object" ->
             IF HasOwn(value.v, k) THEN Get(value.v, k)
             ELSE Inherited("object", k)
      [] value.t = "array" ->
             IF IndexOf(k, Len(value.v)) # {}
             THEN value.v[CHOOSE i \in IndexOf(k, Len(value.v)) : TRUE]
             ELSE IF k = S_length THEN Num(Len(value.v))
             ELSE Inherited("array", k)
      [] value.t = "string" ->
             IF IndexOf(k, Len(value.v)) # {}
             THEN Str(<< value.v[CHOOSE i \in IndexOf(k, Len(value.v)) : TRUE] >>)
             ELSE IF k = S_length THEN Num(Len(value.v))
             ELSE Inherited("string", k)
      [] value.t \in {"number", "boolean"} -> Inherited(value.t, k)
      [] OTHER -> Unmodelled

\* key.split('.')
RECURSIVE SplitFrom(_, _, _, _)
SplitFrom(key, i, cur, keys) ==
    IF i > Len(key) THEN Append(keys, cur)
    ELSE IF key[i] = Ch.dot THEN SplitFrom(key, i + 1, << >>, Append(keys, cur))
    ELSE SplitFrom(key, i + 1, Append(cur, key[i]), keys)

\* for (const k of keys) { if (value === null || value === undefined)
\* return undefined; value = value[k] }  return value
RECURSIVE WalkKeys(_, _, _)
WalkKeys(value, keys, i) ==
    IF i > Len(keys) THEN value
    ELSE IF value.t \in {"null", "undefined"} THEN Undefined
    ELSE WalkKeys(GetProperty(value, keys[i]), keys, i + 1)

getNestedValue(o, key) == WalkKeys(o, SplitFrom(key, 1, << >>, << >>), 1)

\* A string conversion returns [ok, s]; ok = FALSE stands for the TypeError.
Text(s) == [ok |-> TRUE, s |-> s]
ThrowsTypeError == [ok |-> FALSE, s |-> << >>]

RECURSIVE String(_)
RECURSIVE JoinFrom(_, _, _)

\* the text of the elements joined so far, with the i-th element's text e
Joined(acc, i, e) ==
    IF ~e.ok THEN ThrowsTypeError
    ELSE IF i = 1 THEN Text(e.s)
    ELSE Text(acc.s \o << Ch.comma >> \o e.s)

\* Array.prototype.join(','), from the i-th element on: null and undefined
\* elements give the empty text
JoinFrom(xs, i, acc) ==
    IF ~acc.ok \/ i > Len(xs) THEN acc
    ELSE IF xs[i].t \in {"null", "undefined"}
    THEN JoinFrom(xs, i + 1, Joined(acc, i, Text(<< >>)))
    ELSE JoinFrom(xs, i + 1, Joined(acc, i, String(xs[i])))

\* String(value).  An object is converted by its toString method and then
\* by its valueOf method: an own property named toString, which in a parsed
\* JSON value is never a function, hides Object.prototype.toString, and
\* valueOf gives no primitive either, so the conversion throws.
String(value) ==
    CASE value.t = "undefined" -> Text(S_undefined)
      [] value.t = "null"      -> Text(S_null)
      [] value.t = "boolean"   -> Text(IF value.v[1] THEN S_true ELSE S_false)
      [] value.t = "number"    -> Text(NumberToString(value.v[1]))
      [] value.t = "string"    -> Text(value.v)
      [] value.t = "array"     -> JoinFrom(value.v, 1, Text(<< >>))
      [] value.t = "object"    ->
             IF HasOwn(value.v, S_toString) THEN ThrowsTypeError
             ELSE Text(S_objectObject)
      [] value.t = "prototype" ->
             CASE value.v[1] = "object"  -> Text(S_objectObject)
               [] value.v[1] = "number"  -> Text(S_0)
               [] value.v[1] = "boolean" -> Text(S_false)
               [] OTHER                  -> Text(<< >>)
      [] OTHER -> Unmodelled

----------------------------------------------------------------------------
(* matchesAllFilters.  The call returns true or false, or throws.          *)

Thrown == [t |-> "thrown", v |-> << >>]

\* String(value) !== filter.value
Differs(str, text) == IF str.ok THEN Bool(str.s # text) ELSE Thrown

\* value === undefined || String(value) !== filter.value
Rejects(value, text) ==
    IF value.t = "undefined" THEN Bool(TRUE)
    ELSE Differs(String(value), text)

RECURSIVE FilterLoop(_, _, _)

\* a loop that stops at the first filter that passes
AfterFirstOnly(json, fs, i, rejected) ==
    IF rejected = Thrown THEN Thrown ELSE Bool(~rejected.v[1])

\* if (...) return false; and on to the next filter
AfterFilter(json, fs, i, rejected) ==
    IF rejected = Thrown THEN Thrown
    ELSE IF rejected.v[1] THEN Bool(FALSE)
    ELSE FilterLoop(json, fs, i + 1)

\* for (const filter of filters) { ... }  return true, from the i-th on
FilterLoop(json, fs, i) ==
    IF i > Len(fs) THEN Bool(TRUE)
    ELSE AfterFilter(json, fs, i,
             Rejects(getNestedValue(json, fs[i].key), fs[i].value))

matchesAllFilters(json, fs) == FilterLoop(json, fs, 1)

----------------------------------------------------------------------------
(* filterLines.                                                            *)

\* try { json = JSON.parse(trimmed); if (matchesAllFilters(json, filters))
\* ... } catch {}: the line is pushed when nothing throws and the filters
\* match
Passes(parsed, fs) ==
    parsed.ok /\ matchesAllFilters(parsed.val, fs) = Bool(TRUE)

\* one turn of the loop, with the result after it
KeepLine(trimmed, fs, res) ==
    IF trimmed = << >> THEN res
    ELSE IF Passes(JSONparse(trimmed), fs) THEN Append(res, Str(trimmed))
    ELSE res

\* for (const line of lines) { ... }  return result, from the i-th line on
RECURSIVE LinesLoop(_, _, _, _)
LinesLoop(ls, fs, i, res) ==
    IF i > Len(ls) THEN Arr(res)
    ELSE LinesLoop(ls, fs, i + 1, KeepLine(trim(ls[i]), fs, res))

filterLines(ls, fs) == LinesLoop(ls, fs, 1, << >>)

----------------------------------------------------------------------------
(* The inputs of the calls.                                                *)

\* the most own properties of a generated top-level object
MaxKeys == 2

KeyNames == {S_a, S_b, S_1, S_proto}

Primitives == {Num(0), Null, Str(S_x)}

\* nested values: an object whose container comes first, an array holding an
\* object with an index key, an object with a key named __proto__
NestedValues ==
    { ObjOf(<< Prop(S_b, Arr(<< >>)), Prop(S_a, Num(0)) >>),
      Arr(<< ObjOf(<< Prop(S_a, Null), Prop(S_1, Obj(<< >>)) >>) >>),
      ObjOf(<< Prop(S_proto, Num(0)) >>) }

MemberValues == Primitives \cup NestedValues

\* member lists with pairwise distinct names, in the order of the JSON text
MemberLists ==
    UNION { { ms \in [1 .. n -> {Prop(k, x) : k \in KeyNames, x \in MemberValues}] :
                \A i, j \in 1 .. n : i # j => ms[i].k # ms[j].k }
            : n \in 0 .. MaxKeys }

\* {"b":{},"x":0,"a":null,"1":[]}: two keys with primitive values and two
\* with containers, one of them an index key
O_fourKeys ==
    ObjOf(<< Prop(S_b, Obj(<< >>)), Prop(S_x, Num(0)), Prop(S_a, Null),
             Prop(S_1, Arr(<< >>)) >>)

JsonObjects == { ObjOf(ms) : ms \in MemberLists } \cup {O_fourKeys}

Orders ==
    { << >>, << S_a >>, << S_b, S_a >>, << S_a, S_1 >>, << S_z, S_b >>,
      << S_a, S_b, S_a >>, << S_proto, S_proto >>, << S_proto, S_a >> }

\* maxDepth = 10, the default of decodeUriStrings
DefaultMaxDepth == 10

\* JSON.stringify of a string (quotes and backslashes escaped; the inputs
\* hold no control characters)
RECURSIVE EscapeChars(_)
EscapeChars(s) ==
    IF s = << >> THEN << >>
    ELSE (IF Head(s) \in {Ch.quote, Ch.backslash}
          THEN << Ch.backslash, Head(s) >> ELSE << Head(s) >>)
         \o EscapeChars(Tail(s))

Quote(s) == << Ch.quote >> \o EscapeChars(s) \o << Ch.quote >>

HexDigit(n) == IF n < 10 THEN Ch.zero + n ELSE Ch.A + (n - 10)

\* the characters encodeURIComponent leaves alone
IsUnreserved(ch) ==
    \/ ch \in Ch.A .. Ch.Z
    \/ ch \in Ch.a .. Ch.z
    \/ IsDigit(ch)
    \/ ch \in {33, 39, 40, 41, 42, Ch.minus, Ch.dot, Ch.underscore, 126}

\* encodeURIComponent of a string of ASCII characters
RECURSIVE encodeURIComponent(_)
encodeURIComponent(s) ==
    IF s = << >> THEN << >>
    ELSE (IF IsUnreserved(Head(s)) THEN << Head(s) >>
          ELSE << Ch.percent, HexDigit(Head(s) \div 16), HexDigit(Head(s) % 16) >>)
         \o encodeURIComponent(Tail(s))

Bracketed(text) == << Ch.lbracket >> \o text \o << Ch.rbracket >>
Braced(text)    == << Ch.lbrace >> \o text \o << Ch.rbrace >>
Member(k, text) == Quote(k) \o << Ch.colon >> \o text

S_pct41   == << Ch.percent, 52, Ch.one >>                   \* %41, "A" encoded
S_pct     == << Ch.percent >>                               \* %
S_pctZZ   == << Ch.percent, Ch.Z, Ch.Z >>                   \* %ZZ
S_pct2    == << Ch.percent, Ch.two >>                       \* %2
S_pct41pct == S_pct41 \o S_pct                              \* %41%
S_a20b    == << Ch.a, Ch.percent, Ch.two, Ch.zero, Ch.b >>  \* a%20b
S_euro    == << Ch.percent, Ch.E, Ch.two, Ch.percent, 56, Ch.two,
                Ch.percent, Ch.A, 67 >>                     \* %E2%82%AC
S_pctC3   == << Ch.percent, 67, 51 >>                       \* %C3, cut short
S_overlong == << Ch.percent, 67, Ch.zero, Ch.percent, 56, Ch.zero >>  \* %C0%80
S_emoji   == << Ch.percent, Ch.F, Ch.zero, Ch.percent, Ch.nine, Ch.F,
                Ch.percent, Ch.nine, 56, Ch.percent, 56, Ch.zero >>  \* %F0%9F%98%80

\* strings that are not JSON texts starting with { or [
PlainStrings ==
    { << >>, S_x, S_1, S_true, S_pct41, S_pct, S_pctZZ, S_pct2, S_pct41pct,
      S_a20b, S_euro, S_pctC3, S_overlong, S_emoji }

J_empty   == Bracketed(<< >>)                               \* []
J_arr41   == Bracketed(Quote(S_pct41) \o << Ch.comma >> \o S_1)  \* ["%41",1]
J_objNull == Braced(Member(S_a, S_null))                    \* {"a":null}
J_proto   == Braced(Member(S_proto, S_true))                \* {"__proto__":true}
J_pct     == Bracketed(Quote(S_pct))                        \* ["%"]
J_cut     == << Ch.lbracket, Ch.one, Ch.comma >>            \* [1,
J_space   == << Ch.space >> \o Bracketed(S_1)               \*  [1]
J_nbsp    == << 160 >> \o Bracketed(S_1)                    \* [1] after U+00A0

\* the deepest nesting of JSON texts inside strings among the inputs
NestLevels == 3

\* n JSON texts inside one another, as in the maxDepth tests: the innermost
\* is ["%41",1]
RECURSIVE Nested(_)
Nested(n) == IF n <= 1 THEN J_arr41 ELSE Bracketed(Quote(Nested(n - 1)))

JsonLookingStrings ==
    { J_empty, J_objNull, J_proto, J_pct, J_cut, J_space, J_nbsp,
      encodeURIComponent(J_arr41), encodeURIComponent(J_pct) }
    \cup { Nested(n) : n \in 1 .. NestLevels }

DecodeLeaves ==
    { Str(t) : t \in PlainStrings \cup JsonLookingStrings }
    \cup { Num(1), Bool(TRUE), Null }

\* siblings that are both unwrapped, and a plain sibling beside one that is
SiblingValues ==
    { Arr(<< Str(Nested(2)), Str(Nested(2)) >>),
      ObjOf(<< Prop(S_a, Str(Nested(2))), Prop(S_b, Str(S_pct41)) >>) }

\* a leaf alone, in an array, in an object, and three containers deep; and
\* the siblings
DecodeValues ==
    UNION { { x,
              Arr(<< x, Num(1) >>),
              ObjOf(<< Prop(S_a, x), Prop(S_b, Bool(FALSE)) >>),
              ObjOf(<< Prop(S_proto, x), Prop(S_a, Num(0)) >>),
              Arr(<< ObjOf(<< Prop(S_a, Arr(<< x, Null >>)) >>) >>) }
            : x \in DecodeLeaves }
    \cup SiblingValues

\* the largest maxDepth argument tried, beside the default
MaxDepthArg == 2

MaxDepths == (-1 .. MaxDepthArg) \cup {DefaultMaxDepth}

\* the most filters of a generated filter list
MaxFilters == 2

S_commaList == << Ch.one, Ch.comma, Ch.zero, Ch.comma >>

\* a dotted path
RECURSIVE Dotted(_)
Dotted(keys) ==
    IF Len(keys) = 1 THEN keys[1]
    ELSE keys[1] \o << Ch.dot >> \o Dotted(Tail(keys))

\* parsed lines: primitives of every type under top-level keys; nested
\* objects and arrays; objects with a member named toString; lines that are
\* not objects
FilterValues ==
    { ObjOf(<< Prop(S_a, Num(1)), Prop(S_b, Bool(TRUE)), Prop(S_x, Null) >>),
      ObjOf(<< Prop(S_a, ObjOf(<< Prop(S_b, Str(S_x)) >>)),
               Prop(S_b, Arr(<< Num(0), ObjOf(<< Prop(S_a, Str(S_1)) >>) >>)) >>),
      ObjOf(<< Prop(S_a, ObjOf(<< Prop(S_toString, Num(1)) >>)),
               Prop(S_b, Num(0)) >>),
      ObjOf(<< Prop(S_a, Str(S_1)),
               Prop(S_b, Arr(<< Num(1), Arr(<< Num(0), Null >>) >>)),
               Prop(S_x, Obj(<< >>)) >>),
      ObjOf(<< Prop(S_a, Arr(<< ObjOf(<< Prop(S_toString, Null) >>) >>)),
               Prop(S_b, Str(S_true)) >>),
      Null,
      Str(S_x) }

\* { key, value }
Filter(key, value) == [key |-> key, value |-> value]

FilterChoices ==
    { Filter(S_a, S_1),
      Filter(S_b, S_true),
      Filter(S_x, S_null),
      Filter(S_z, S_undefined),
      Filter(Dotted(<< S_a, S_b >>), S_x),
      Filter(Dotted(<< S_b, S_1, S_a >>), S_1),
      Filter(Dotted(<< S_b, S_length >>), S_2),
      Filter(S_a, S_objectObject),
      Filter(S_b, S_0),
      Filter(S_b, S_commaList),
      Filter(Dotted(<< S_x, S_a >>), S_undefined),
      Filter(S_proto, S_objectObject) }

FilterLists == UNION { [1 .. n -> FilterChoices] : n \in 0 .. MaxFilters }

\* the most lines of a generated document
MaxLines == 2

\* {"a":1}
L_a1 == Braced(Member(S_a, S_1))

\* lines: a matching object, the same text inside white space, the same
\* object written with inner white space, an empty and a blank line, a text
\* cut short, a string member, a member whose conversion throws, another key
LineTexts ==
    { L_a1,
      << Ch.space, Ch.space >> \o L_a1 \o << Ch.tab >>,
      << Ch.lbrace, Ch.space >> \o Quote(S_a) \o << Ch.space, Ch.colon >>
          \o S_1 \o << Ch.rbrace >>,
      << >>,
      << Ch.space, 160 >>,
      J_cut,
      Braced(Member(S_a, Quote(S_1))),
      Braced(Member(S_a, Braced(Member(S_toString, S_1)))),
      Braced(Member(S_b, S_1)) }

LineLists == UNION { [1 .. n -> LineTexts] : n \in 0 .. MaxLines }

LineFilters ==
    { << >>, << Filter(S_a, S_1) >>, << Filter(S_a, S_objectObject) >> }

\* values to resolve paths in: the parsed lines of the filters, and an
\* object with null at two depths
PathValues ==
    FilterValues \cup
    { ObjOf(<< Prop(S_a, Null),
               Prop(S_b, ObjOf(<< Prop(S_x, Null), Prop(S_a, Num(0)) >>)) >>),
      Undefined }

\* keys: own members, nested members, members of null and of missing
\* values, array indices, names found on built-in prototypes, the empty key
PathKeys ==
    { S_a, S_b, S_x, S_z, << >>, S_proto, S_toString,
      Dotted(<< S_a, S_b >>), Dotted(<< S_a, S_z >>), Dotted(<< S_a, S_0 >>),
      Dotted(<< S_a, S_b, S_x >>), Dotted(<< S_b, S_x >>),
      Dotted(<< S_b, S_x, S_a >>), Dotted(<< S_x, S_a >>),
      Dotted(<< S_z, S_a >>), Dotted(<< S_b, S_1 >>), Dotted(<< S_b, S_2 >>),
      Dotted(<< S_b, S_1, S_a >>), Dotted(<< S_b, S_length >>),
      Dotted(<< S_b, S_a >>) }

----------------------------------------------------------------------------
(* The preview panel (PreviewPanel, and the listeners of activate) in its  *)
(* host.  The operators below take the fields of the PreviewPanel object   *)
(* and of the host as one record and return the record after the call.    *)

\* the most steps of the host, the user and the webview that are followed
MaxSteps == 6

\* {"b":{},"x":1,"1":0}
J_inner ==
    Braced(Member(S_b, Braced(<< >>)) \o << Ch.comma >>
           \o Member(S_x, S_1) \o << Ch.comma >>
           \o Member(S_1, S_0))

\* {"z":"{\"b\":{},\"x\":1,\"1\":0}","x":1}
L_embedded ==
    Braced(Member(S_z, Quote(J_inner)) \o << Ch.comma >>
           \o Member(S_x, S_1))

\* {"b":{},"a":"%41","x":1}
L_source ==
    Braced(Member(S_b, Braced(<< >>)) \o << Ch.comma >>
           \o Member(S_a, Quote(S_pct41)) \o << Ch.comma >>
           \o Member(S_x, S_1))

\* The documents open at start: document 1 is an NDJSON file with a valid
\* line, a blank line and a line cut short; document 2 is a file of two
\* lines that the host takes for plain text, the second a JSON object with
\* a JSON text in one of its strings.
SourceDocuments ==
    << [languageId |-> "jsonl",
        text |-> << L_source, << Ch.space, Ch.space >>, J_cut >>],
       [languageId |-> "plaintext", text |-> << S_x, L_embedded >>] >>

\* this.state of a new PreviewPanel, stored being the value kept in global
\* state (NotStored: none, the default [] is used)
NotStored == [has |-> FALSE, value |-> << >>]

\* the global state after update(key, value)
Stored(value) == [has |-> TRUE, value |-> value]

\* context.globalState.get('ndjson-preview.customOrder', [])
GetStored(stored) == IF stored.has THEN stored.value ELSE << >>

InitialState(stored) ==
    [reorderKeys |-> FALSE, wordWrap |-> FALSE, uriDecode |-> FALSE,
     customOrder |-> GetStored(stored),
     activeFilters |-> << >>]

NoHtml == [isError |-> FALSE, empty |-> TRUE]

Here ==
    [panel |-> panel, lastEditor |-> lastEditor,
     filteredDocument |-> filteredDocument, state |-> state,
     globalState |-> globalState, activeTextEditor |-> activeTextEditor,
     visibleTextEditors |-> visibleTextEditors, selection |-> selection,
     documents |-> documents, panels |-> panels,
     html |-> html, decorations |-> decorations, notice |-> "",
     shown |-> "", closing |-> closing, tasks |-> tasks]

\* every variable of the session takes its value in the record w
Assign(w) ==
    /\ steps < MaxSteps
    /\ steps' = steps + 1
    /\ panel' = w.panel
    /\ lastEditor' = w.lastEditor
    /\ filteredDocument' = w.filteredDocument
    /\ state' = w.state
    /\ globalState' = w.globalState
    /\ activeTextEditor' = w.activeTextEditor
    /\ visibleTextEditors' = w.visibleTextEditors
    /\ selection' = w.selection
    /\ documents' = w.documents
    /\ panels' = w.panels
    /\ html' = w.html
    /\ decorations' = w.decorations
    /\ notice' = w.notice
    /\ shown' = w.shown
    /\ closing' = w.closing
    /\ tasks' = w.tasks

\* the step ends in the record v
Becomes(v) == \E w \in {v} : Assign(w)

\* "Error parsing JSON: "
S_errorParsing ==
    << Ch.E, Ch.r, Ch.r, Ch.o, Ch.r, Ch.space, Ch.p, Ch.a, Ch.r, Ch.s, Ch.i,
       Ch.n, Ch.g, Ch.space, Ch.J, Ch.S, Ch.O, Ch.N, Ch.colon, Ch.space >>

\* error.message of the SyntaxError JSON.parse throws: its wording is the
\* engine's, one code unit stands for it
ParserMessage == << 0 >>

\* `Error parsing JSON: ${error.message}`
ParseErrorText == Str(S_errorParsing \o ParserMessage)

\* what escapeHtml puts for one character
EscapedChar(ch) ==
    CASE ch = Ch.amp   -> << Ch.amp, Ch.a, Ch.m, Ch.p, Ch.semicolon >>
      [] ch = Ch.lt    -> << Ch.amp, Ch.l, Ch.t, Ch.semicolon >>
      [] ch = Ch.gt    -> << Ch.amp, Ch.g, Ch.t, Ch.semicolon >>
      [] ch = Ch.quote -> << Ch.amp, Ch.q, Ch.u, Ch.o, Ch.t, Ch.semicolon >>
      [] ch = Ch.apos  -> << Ch.amp, Ch.hash, Ch.zero, Ch.three, Ch.nine,
                             Ch.semicolon >>
      [] OTHER         -> << ch >>

RECURSIVE escapeHtml(_)
escapeHtml(text) ==
    IF text = << >> THEN << >>
    ELSE EscapedChar(Head(text)) \o escapeHtml(Tail(text))

\* an error page carries no JSON data
NoData == [t |-> "none", v |-> << >>]

\* The page for the options, as the parts of it that depend on them.
\* content is the error box with the text of json, or the container that
\* the script of the page fills from data (the JSON text of json, stood for
\* by the value it is parsed back to)
Page(options) ==
    [content |-> IF options.isError
                 THEN [class |-> "error",
                       text |-> escapeHtml(String(options.json).s)]
                 ELSE [class |-> "json-container", text |-> << >>],
     data |-> IF options.isError THEN NoData ELSE options.json,
     isError |-> options.isError,
     lineNumber |-> options.lineNumber,
     reorderEnabled |-> options.reorderEnabled,
     wordWrapEnabled |-> options.wordWrapEnabled,
     uriDecodeEnabled |-> options.uriDecodeEnabled,
     customOrder |-> options.customOrder,
     filters |-> options.filters,
     empty |-> FALSE]

\* getWebviewContent(options)
getWebviewContent(options) == CHOOSE page \in {Page(o) : o \in {options}} : TRUE

Options(st, json, line, isError) ==
    [json |-> json, lineNumber |-> line + 1, isError |-> isError,
     reorderEnabled |-> st.reorderKeys, wordWrapEnabled |-> st.wordWrap,
     uriDecodeEnabled |-> st.uriDecode, customOrder |-> st.customOrder,
     filters |-> st.activeFilters]

\* the policy with the automatic reordering tried first
ReorderFirst(st, json) ==
    IF st.reorderKeys THEN reorderJsonKeys(json)
    ELSE IF Len(st.customOrder) > 0
    THEN applyCustomOrder(json, st.customOrder)
    ELSE json

\* if (customOrder.length > 0) json = applyCustomOrder(json, customOrder)
\* else if (reorderKeys) json = reorderJsonKeys(json)
OrderPolicy(st, json) ==
    IF Len(st.customOrder) > 0 THEN applyCustomOrder(json, st.customOrder)
    ELSE IF st.reorderKeys THEN reorderJsonKeys(json)
    ELSE json

\* the decoded value put in order once more
ReorderDecoded(st, json) ==
    IF st.uriDecode
    THEN OrderPolicy(st, decodeUriStrings(json, DefaultMaxDepth))
    ELSE json

\* if (uriDecode) json = decodeUriStrings(json)
DecodePolicy(st, json) ==
    IF st.uriDecode THEN decodeUriStrings(json, DefaultMaxDepth) ELSE json

\* the options of the try block of update and of its catch
RenderParsed(st, line, parsed) ==
    IF parsed.ok
    THEN Options(st, DecodePolicy(st, OrderPolicy(st, parsed.val)),
                 line, FALSE)
    ELSE Options(st, ParseErrorText, line, TRUE)

\* the html with every line handed to JSON.parse, a blank one too
RenderUnchecked(st, lineText, line) ==
    getWebviewContent(RenderParsed(st, line, JSONparse(lineText)))

\* the html update computes for the trimmed text of line number line
Render(st, lineText, line) ==
    getWebviewContent(
        IF lineText = << >>
        THEN Options(st, Null, line, TRUE)
        ELSE RenderParsed(st, line, JSONparse(lineText)))

\* editor.document.lineAt(line).text.trim()
LineText(w, editor) ==
    trim(w.documents[editor].text[w.selection[editor] + 1])

\* update(editor) without the test of this.panel
UpdateUnguarded(w, editor) ==
    [w EXCEPT !.lastEditor = editor,
              !.decorations[editor] = {w.selection[editor]},
              !.html = Render(w.state, LineText(w, editor),
                              w.selection[editor])]

\* update(editor)
Update(w, editor) ==
    IF w.panel = 0 THEN w
    ELSE [w EXCEPT !.lastEditor = editor,
                   !.decorations[editor] = {w.selection[editor]},
                   !.html = Render(w.state, LineText(w, editor),
                                   w.selection[editor])]

\* vscode.window.createWebviewPanel(...)
CreatePanel(w) ==
    [w EXCEPT !.panel = Cardinality(w.panels) + 1,
              !.panels = @ \cup {Cardinality(w.panels) + 1},
              !.html = NoHtml, !.shown = "created"]

\* this.panel.reveal(...)
RevealPanel(w) == [w EXCEPT !.shown = "revealed"]

\* show() creating a panel whether or not one exists
ShowAlwaysCreates(w) ==
    IF w.activeTextEditor = 0
    THEN [w EXCEPT !.notice = "No active editor found"]
    ELSE Update(CreatePanel(w), w.activeTextEditor)

\* show()
Show(w) ==
    IF w.activeTextEditor = 0
    THEN [w EXCEPT !.notice = "No active editor found"]
    ELSE Update(IF w.panel # 0 THEN RevealPanel(w) ELSE CreatePanel(w),
                w.activeTextEditor)

\* the onDidDispose callback, the host having disposed of the panel
OnDidDispose(w) ==
    IF w.activeTextEditor # 0
    THEN [w EXCEPT !.panels = { }, !.html = NoHtml, !.panel = 0,
                   !.decorations[w.activeTextEditor] = { }]
    ELSE [w EXCEPT !.panels = { }, !.html = NoHtml, !.panel = 0]

\* the lines of a document with the given content lines joined by '\n'
ContentLines(kept) == IF kept = << >> THEN << << >> >> ELSE kept

\* the texts of an array of strings
RECURSIVE Texts(_)
Texts(strs) ==
    IF strs = << >> THEN << >> ELSE << Head(strs).v >> \o Texts(Tail(strs))

\* createFilteredView(editor), up to the first await; kept is
\* filteredResult
OpenFiltered(w, editor, kept) ==
    [w EXCEPT !.tasks = Append(@, [at |-> "openTextDocument",
                                   text |-> ContentLines(Texts(kept.v)),
                                   count |-> Len(kept.v),
                                   lineCount |-> Len(w.documents[editor].text),
                                   document |-> 0])]

\* the filtered view made of the first document, whatever the editor
createFilteredViewOfSource(w, editor) ==
    OpenFiltered(w, 1,
                 filterLines(w.documents[1].text, w.state.activeFilters))

\* createFilteredView(editor)
createFilteredView(w, editor) ==
    OpenFiltered(w, editor,
                 filterLines(w.documents[editor].text, w.state.activeFilters))

\* closeFilteredView(): one closeActiveEditor command for each visible editor
\* of the filtered document
closeFilteredView(w) ==
    IF w.filteredDocument = 0 THEN w
    ELSE IF w.filteredDocument \in w.visibleTextEditors
    THEN [w EXCEPT !.closing = @ + 1, !.filteredDocument = 0]
    ELSE [w EXCEPT !.filteredDocument = 0]

\* the global state left as it is
globalStateKept(w) == w

\* this.context.globalState.update('ndjson-preview.customOrder',
\*                                 this.state.customOrder)
globalStateUpdate(w) ==
    [w EXCEPT !.globalState = Stored(w.state.customOrder)]

\* the commands handleMessage has a case for
Commands ==
    {"toggleReorder", "toggleWordWrap", "toggleUriDecode",
     "setCustomOrder", "setFilters"}

\* the assignment each case of handleMessage starts with, and the
\* globalState.update of case 'setCustomOrder'
Assigned(w, message) ==
    CASE message.command = "toggleReorder" ->
             [w EXCEPT !.state.reorderKeys = message.value]
      [] message.command = "toggleWordWrap" ->
             [w EXCEPT !.state.wordWrap = message.value]
      [] message.command = "toggleUriDecode" ->
             [w EXCEPT !.state.uriDecode = message.value]
      [] message.command = "setCustomOrder" ->
             globalStateUpdate(
                 [w EXCEPT !.state.customOrder = message.value])
      [] message.command = "setFilters" ->
             [w EXCEPT !.state.activeFilters = message.value]

\* case 'setFilters', inside if (this.lastEditor): the filtered view
\* is created or closed before the update
FiltersSet(w) ==
    IF Len(w.state.activeFilters) > 0
    THEN createFilteredView(w, w.lastEditor)
    ELSE closeFilteredView(w)

\* the case left without the update
NotUpdated(w, message) == w

\* if (this.lastEditor) this.update(this.lastEditor), which ends
\* every case
UpdateLast(w, message) ==
    IF w.lastEditor = 0 THEN w
    ELSE Update(IF message.command = "setFilters" THEN FiltersSet(w)
                ELSE w,
                w.lastEditor)

\* handleMessage(message)
handleMessage(w, message) ==
    IF message.command \in Commands
    THEN UpdateLast(Assigned(w, message), message)
    ELSE w

\* the language of the document not looked at
AnyLanguage(w, editor) == editor # 0

\* editor && editor.document.languageId === 'jsonl'
IsJsonl(w, editor) ==
    editor # 0 /\ w.documents[editor].languageId = "jsonl"

\* the onDidChangeTextEditorSelection listener
cursorListener(w, editor) ==
    IF w.panel # 0 /\ IsJsonl(w, editor) THEN Update(w, editor) ELSE w

\* the onDidChangeActiveTextEditor listener
editorListener(w, editor) ==
    IF IsJsonl(w, editor)
    THEN IF w.panel = 0 THEN Show(w) ELSE Update(w, editor)
    ELSE w

\* the editors there can be: one for each document
Editors == 1 .. (Len(SourceDocuments) + MaxSteps)

\* the custom orders kept in global state from an earlier session
StoredOrders == {NotStored, Stored(<< S_z >>)}

\* no call is followed cell by cell
HeapAtRest == heap = << >> /\ args = << >> /\ ret = Undefined

\* the extension host with no PreviewPanel at work
PanelAtRest ==
    /\ phase = "none"
    /\ panel = 0 /\ lastEditor = 0 /\ filteredDocument = 0
    /\ state = InitialState(NotStored)
    /\ globalState = NotStored
    /\ activeTextEditor = 0 /\ visibleTextEditors = { }
    /\ selection = [e \in Editors |-> 0]
    /\ documents = SourceDocuments
    /\ panels = { } /\ html = NoHtml
    /\ decorations = [e \in Editors |-> { }]
    /\ notice = "" /\ shown = "" /\ closing = 0 /\ tasks = << >>
    /\ steps = 0

----------------------------------------------------------------------------
(* The calls.                                                              *)

ReorderInputs ==
    /\ obj \in JsonObjects
    /\ order \in Orders
    /\ maxDepth = DefaultMaxDepth
    /\ filters = << >>
    /\ lines = << >>
    /\ nestedKey = << >>

DecodeInputs ==
    /\ obj \in DecodeValues
    /\ order = << >>
    /\ maxDepth \in MaxDepths
    /\ filters = << >>
    /\ lines = << >>
    /\ nestedKey = << >>

FilterInputs ==
    /\ obj \in FilterValues
    /\ order = << >>
    /\ maxDepth = DefaultMaxDepth
    /\ filters \in FilterLists
    /\ lines = << >>
    /\ nestedKey = << >>

LinesInputs ==
    /\ obj = Undefined
    /\ order = << >>
    /\ maxDepth = DefaultMaxDepth
    /\ filters \in LineFilters
    /\ lines \in LineLists
    /\ nestedKey = << >>

PathInputs ==
    /\ obj \in PathValues
    /\ order = << >>
    /\ maxDepth = DefaultMaxDepth
    /\ filters = << >>
    /\ lines = << >>
    /\ nestedKey \in PathKeys

Init ==
    /\ pc = "ready"
    /\ result = Undefined
    /\ unwraps = 0
    /\ (ReorderInputs \/ DecodeInputs \/ FilterInputs \/ LinesInputs
          \/ PathInputs)
    /\ PanelAtRest
    /\ HeapAtRest

Call_reorderJsonKeys ==
    /\ pc = "ready"
    /\ pc' = "reorderJsonKeys"
    /\ result' = reorderJsonKeys(obj)
    /\ UNCHANGED <<obj, order, maxDepth, filters, lines, nestedKey, unwraps>>
    /\ UNCHANGED <<panelVars, heapVars>>

Call_applyCustomOrder ==
    /\ pc = "ready"
    /\ pc' = "applyCustomOrder"
    /\ result' = applyCustomOrder(obj, order)
    /\ UNCHANGED <<obj, order, maxDepth, filters, lines, nestedKey, unwraps>>
    /\ UNCHANGED <<panelVars, heapVars>>

Call_decodeUriStrings ==
    /\ pc = "ready"
    /\ pc' = "decodeUriStrings"
    /\ LET run == DecodeRun(obj, maxDepth)
       IN  /\ result' = run.val
           /\ unwraps' = run.unwraps
    /\ UNCHANGED <<obj, order, maxDepth, filters, lines, nestedKey>>
    /\ UNCHANGED <<panelVars, heapVars>>

Call_matchesAllFilters ==
    /\ pc = "ready"
    /\ pc' = "matchesAllFilters"
    /\ result' = matchesAllFilters(obj, filters)
    /\ UNCHANGED <<obj, order, maxDepth, filters, lines, nestedKey, unwraps>>
    /\ UNCHANGED <<panelVars, heapVars>>

Call_filterLines ==
    /\ pc = "ready"
    /\ pc' = "filterLines"
    /\ result' = filterLines(lines, filters)
    /\ UNCHANGED <<obj, order, maxDepth, filters, lines, nestedKey, unwraps>>
    /\ UNCHANGED <<panelVars, heapVars>>

Call_getNestedValue ==
    /\ pc = "ready"
    /\ pc' = "getNestedValue"
    /\ result' = getNestedValue(obj, nestedKey)
    /\ UNCHANGED <<obj, order, maxDepth, filters, lines, nestedKey, unwraps>>
    /\ UNCHANGED <<panelVars, heapVars>>

Next ==
    \/ Call_reorderJsonKeys
    \/ Call_applyCustomOrder
    \/ Call_decodeUriStrings
    \/ Call_matchesAllFilters
    \/ Call_filterLines
    \/ Call_getNestedValue

Spec == Init /\ [][Next]_vars

----------------------------------------------------------------------------
(* The session: activate, the user, the webview and the host's replies.    *)

CallsAtRest ==
    /\ pc = "ready" /\ obj = Undefined /\ order = << >> /\ maxDepth = 0
    /\ filters = << >> /\ lines = << >> /\ nestedKey = << >>
    /\ result = Undefined /\ unwraps = 0

\* activate has run `new PreviewPanel(context)`
PanelInit ==
    /\ CallsAtRest
    /\ HeapAtRest
    /\ phase = "constructed"
    /\ panel = 0 /\ lastEditor = 0 /\ filteredDocument = 0
    /\ globalState \in StoredOrders
    /\ state = InitialState(globalState)
    /\ activeTextEditor \in 0 .. Len(SourceDocuments)
    /\ visibleTextEditors = 1 .. Len(SourceDocuments)
    /\ selection = [e \in Editors |-> 0]
    /\ documents = SourceDocuments
    /\ panels = { } /\ html = NoHtml
    /\ decorations = [e \in Editors |-> { }]
    /\ notice = "" /\ shown = "" /\ closing = 0 /\ tasks = << >>
    /\ steps = 0

\* the rest of activate: the listeners are registered and the preview opens
\* if the active editor shows an NDJSON file
Activate ==
    /\ phase = "constructed"
    /\ phase' = "active"
    /\ Becomes(IF IsJsonl(Here, activeTextEditor) THEN Show(Here) ELSE Here)
    /\ UNCHANGED <<callVars, heapVars>>

\* the command ndjson-preview.open
Cmd_open ==
    /\ phase = "active"
    /\ Becomes(Show(Here))
    /\ UNCHANGED <<phase, callVars, heapVars>>

\* the user makes another editor (or none) the active one
UserSelectsEditor ==
    /\ phase = "active"
    /\ \E e \in (visibleTextEditors \cup {0}) \ {activeTextEditor} :
           Becomes(editorListener([Here EXCEPT !.activeTextEditor = e], e))
    /\ UNCHANGED <<phase, callVars, heapVars>>

\* the user moves the cursor of a visible editor to another line
UserMovesCursor ==
    /\ phase = "active"
    /\ \E e \in visibleTextEditors :
         \E l \in 0 .. (Len(documents[e].text) - 1) :
           /\ l # selection[e]
           /\ Becomes(cursorListener([Here EXCEPT !.selection[e] = l], e))
    /\ UNCHANGED <<phase, callVars, heapVars>>

\* the filters the webview can send
PanelFilters == {<< >>, << Filter(S_x, S_1) >>}

\* the custom orders the webview can send
PanelOrders == {<< >>, << S_x >>}

Messages ==
    [command : {"toggleReorder", "toggleWordWrap", "toggleUriDecode"},
     value : BOOLEAN]
    \cup [command : {"setCustomOrder"}, value : PanelOrders]
    \cup [command : {"setFilters"}, value : PanelFilters]
    \cup [command : {"ready"}, value : {FALSE}]

\* the script of the page posts m: a click on an item of the menu posts the
\* opposite of the check mark the page shows beside it
Posted(m) ==
    CASE m.command = "toggleReorder"   -> m.value = ~html.reorderEnabled
      [] m.command = "toggleWordWrap"  -> m.value = ~html.wordWrapEnabled
      [] m.command = "toggleUriDecode" -> m.value = ~html.uriDecodeEnabled
      [] OTHER                         -> TRUE

\* the webview posts a message
WebviewMessage ==
    /\ phase = "active"
    /\ panel # 0
    /\ \E m \in Messages : Posted(m) /\ Becomes(handleMessage(Here, m))
    /\ UNCHANGED <<phase, callVars, heapVars>>

\* the user closes the preview panel
UserClosesPanel ==
    /\ phase = "active"
    /\ panel # 0
    /\ Becomes(OnDidDispose(Here))
    /\ UNCHANGED <<phase, callVars, heapVars>>

\* this.filteredDocument = await openTextDocument(...), then the call of
\* showTextDocument
OpenTextDocumentDone ==
    /\ phase = "active"
    /\ \E i \in DOMAIN tasks :
         /\ tasks[i].at = "openTextDocument"
         /\ Becomes([Here EXCEPT
                !.documents = Append(@, [languageId |-> "jsonl",
                                         text |-> tasks[i].text]),
                !.filteredDocument = Len(documents) + 1,
                !.tasks[i].at = "showTextDocument",
                !.tasks[i].document = Len(documents) + 1])
    /\ UNCHANGED <<phase, callVars, heapVars>>

WithoutTask(ts, i) == SubSeq(ts, 1, i - 1) \o SubSeq(ts, i + 1, Len(ts))

\* await showTextDocument(...) ends: the editor is visible and active, the
\* listener of the active editor has run; then the information message
ShowTextDocumentDone ==
    /\ phase = "active"
    /\ \E i \in DOMAIN tasks :
         /\ tasks[i].at = "showTextDocument"
         /\ Becomes([editorListener(
                        [Here EXCEPT
                           !.visibleTextEditors = @ \cup {tasks[i].document},
                           !.activeTextEditor = tasks[i].document,
                           !.tasks = WithoutTask(@, i)],
                        tasks[i].document)
                     EXCEPT !.notice = "Showing n of m lines"])
    /\ UNCHANGED <<phase, callVars, heapVars>>

\* the host runs one workbench.action.closeActiveEditor command: the active
\* editor closes and another visible editor, if any, becomes the active one
CloseActiveEditorRuns ==
    /\ phase = "active"
    /\ closing > 0
    /\ IF activeTextEditor = 0
       THEN Becomes([Here EXCEPT !.closing = @ - 1])
       ELSE \E e \in IF visibleTextEditors = {activeTextEditor} THEN {0}
                     ELSE visibleTextEditors \ {activeTextEditor} :
              Becomes(editorListener(
                  [Here EXCEPT !.closing = @ - 1,
                               !.visibleTextEditors = @ \ {activeTextEditor},
                               !.activeTextEditor = e], e))
    /\ UNCHANGED <<phase, callVars, heapVars>>

\* the window is reloaded: the extension is activated anew with the global
\* state of the session before
Reload ==
    /\ phase = "active"
    /\ phase' = "constructed"
    /\ panel' = 0 /\ lastEditor' = 0 /\ filteredDocument' = 0
    /\ state' = InitialState(globalState)
    /\ activeTextEditor' \in 0 .. Len(SourceDocuments)
    /\ visibleTextEditors' = 1 .. Len(SourceDocuments)
    /\ selection' = [e \in Editors |-> 0]
    /\ documents' = SourceDocuments
    /\ panels' = { } /\ html' = NoHtml
    /\ decorations' = [e \in Editors |-> { }]
    /\ notice' = "" /\ shown' = "" /\ closing' = 0 /\ tasks' = << >>
    /\ steps < MaxSteps
    /\ steps' = steps + 1
    /\ UNCHANGED <<globalState, callVars, heapVars>>

PanelNext ==
    \/ Activate
    \/ Cmd_open
    \/ UserSelectsEditor
    \/ UserMovesCursor
    \/ WebviewMessage
    \/ UserClosesPanel
    \/ OpenTextDocumentDone
    \/ ShowTextDocumentDone
    \/ CloseActiveEditorRuns
    \/ Reload

PanelSpec == PanelInit /\ [][PanelNext]_vars

----------------------------------------------------------------------------
(* Properties of key reordering.                                           *)

Reordered == pc \in {"reorderJsonKeys", "applyCustomOrder"}

\* the own keys of two values agree as sets, without duplicates, at every
\* nesting depth (through objects and arrays)
RECURSIVE SameKeysDeep(_, _)
SameKeysDeep(x, y) ==
    /\ x.t = y.t
    /\ x.t = "array" =>
          /\ Len(x.v) = Len(y.v)
          /\ \A i \in DOMAIN x.v : SameKeysDeep(x.v[i], y.v[i])
    /\ x.t = "object" =>
          /\ KeySet(x.v) = KeySet(y.v)
          /\ Cardinality(KeySet(y.v)) = Len(y.v)
          /\ \A k \in KeySet(x.v) : SameKeysDeep(Get(x.v, k), Get(y.v, k))

\* C1: after reorderJsonKeys(o) or applyCustomOrder(o, order), the set of
\* own keys of the result equals that of o at every nesting depth: no key is
\* lost, added or duplicated.
C1_KeySetInvariance == Reordered => SameKeysDeep(obj, result)

\* in every object of x, every key with a primitive value comes before every
\* key with a container value
RECURSIVE PrimitivesFirstDeep(_)
PrimitivesFirstDeep(x) ==
    /\ x.t = "array" => \A i \in DOMAIN x.v : PrimitivesFirstDeep(x.v[i])
    /\ x.t = "object" =>
          /\ \A i, j \in DOMAIN x.v :
                (~IsContainer(x.v[i].v) /\ IsContainer(x.v[j].v)) => i < j
          /\ \A i \in DOMAIN x.v : PrimitivesFirstDeep(x.v[i].v)

\* C2: in reorderJsonKeys(o) every key whose value is null or a
\* non-container comes before every key whose value is an object or array,
\* in o and in every nested object.
C2_PrimitivesFirst == pc = "reorderJsonKeys" => PrimitivesFirstDeep(result)

\* the first position of key in ord (0 when it is not named)
FirstIndex(ord, key) ==
    IF Includes(ord, key)
    THEN CHOOSE i \in DOMAIN ord : ord[i] = key /\ \A j \in 1 .. i - 1 : ord[j] # key
    ELSE 0

\* in every object of x: keys named in ord come in the order ord first names
\* them, and keys not named in ord come after all named ones
RECURSIVE CustomOrderDeep(_, _)
CustomOrderDeep(x, ord) ==
    /\ x.t = "array" => \A i \in DOMAIN x.v : CustomOrderDeep(x.v[i], ord)
    /\ x.t = "object" =>
          /\ \A i, j \in DOMAIN x.v :
                /\ ( /\ Includes(ord, x.v[i].k)
                     /\ Includes(ord, x.v[j].k)
                     /\ FirstIndex(ord, x.v[i].k) < FirstIndex(ord, x.v[j].k) )
                   => i < j
                /\ (Includes(ord, x.v[i].k) /\ ~Includes(ord, x.v[j].k)) => i < j
          /\ \A i \in DOMAIN x.v : CustomOrderDeep(x.v[i].v, ord)

\* C3: in applyCustomOrder(o, order), own keys named in order come in the
\* order in which order names them, and every own key absent from order comes
\* after all named keys; the same in every nested object.
C3_CustomOrderPrecedence ==
    pc = "applyCustomOrder" => CustomOrderDeep(result, order)

\* deep equality that ignores the order of sibling object keys
RECURSIVE DeepEqual(_, _)
DeepEqual(x, y) ==
    /\ x.t = y.t
    /\ CASE x.t = "array" ->
              /\ Len(x.v) = Len(y.v)
              /\ \A i \in DOMAIN x.v : DeepEqual(x.v[i], y.v[i])
         [] x.t = "object" ->
              /\ KeySet(x.v) = KeySet(y.v)
              /\ Len(x.v) = Len(y.v)
              /\ \A k \in KeySet(x.v) : DeepEqual(Get(x.v, k), Get(y.v, k))
         [] OTHER -> x = y

\* C4: reorderJsonKeys and applyCustomOrder change nothing but the order of
\* sibling keys: the result is deep-equal to the input when key order is
\* ignored, arrays keeping their length and element order.
C4_ValuesPreserved == Reordered => DeepEqual(obj, result)

----------------------------------------------------------------------------
(* Properties of decodeUriStrings.                                         *)

Decoded == pc = "decodeUriStrings"

\* x holds a number, a boolean or null somewhere
RECURSIVE HasNonStringLeaf(_)
HasNonStringLeaf(x) ==
    CASE x.t = "array"  -> \E i \in DOMAIN x.v : HasNonStringLeaf(x.v[i])
      [] x.t = "object" -> \E i \in DOMAIN x.v : HasNonStringLeaf(x.v[i].v)
      [] OTHER          -> x.t # "string"

\* every number, boolean and null of x is at the same path in y, unchanged
RECURSIVE KeepsNonStrings(_, _)
KeepsNonStrings(x, y) ==
    CASE x.t = "string" -> TRUE
      [] x.t = "array"  ->
           /\ y.t = "array"
           /\ Len(y.v) = Len(x.v)
           /\ \A i \in DOMAIN x.v : KeepsNonStrings(x.v[i], y.v[i])
      [] x.t = "object" ->
           /\ y.t = "object"
           /\ \A i \in DOMAIN x.v :
                /\ HasNonStringLeaf(x.v[i].v) => HasOwn(y.v, x.v[i].k)
                /\ HasOwn(y.v, x.v[i].k) =>
                      KeepsNonStrings(x.v[i].v, Get(y.v, x.v[i].k))
      [] OTHER          -> y = x

\* C5: decodeUriStrings never alters a non-string leaf: every number,
\* boolean and null of the input is at the same path, with the same value, in
\* the output, for every maxDepth.
C5_NonStringLeavesKept == Decoded => KeepsNonStrings(obj, result)

\* a string that decodeUriStrings would unwrap: its decoded text starts with
\* { or [ and parses as JSON
IsEmbeddedJson(x) ==
    /\ x.t = "string"
    /\ LooksLikeJson(DecodedOrOriginal(x.v))
    /\ JSONparse(DecodedOrOriginal(x.v)).ok

RECURSIVE HasEmbeddedJson(_)
HasEmbeddedJson(x) ==
    CASE x.t = "array"  -> \E i \in DOMAIN x.v : HasEmbeddedJson(x.v[i])
      [] x.t = "object" -> \E i \in DOMAIN x.v : HasEmbeddedJson(x.v[i].v)
      [] OTHER          -> IsEmbeddedJson(x)

\* C6: a call of decodeUriStrings nests at most maxDepth unwraps of embedded
\* JSON along any path; with maxDepth <= 0 it returns its input unchanged,
\* even a percent-encoded or JSON-looking string; and with maxDepth = 1 the
\* value unwrapped from a string is returned as parsed, its own strings
\* neither decoded nor unwrapped.
C6_DepthBudget ==
    Decoded =>
        /\ unwraps <= Max(maxDepth, 0)
        /\ maxDepth <= 0 => result = obj
        /\ (maxDepth = 1 /\ IsEmbeddedJson(obj)) =>
              result = JSONparse(DecodedOrOriginal(obj.v)).val

\* the budget was spent on a path of the input with more nested JSON texts
\* than maxDepth: the result still holds a string that could be unwrapped
C6_BudgetSpent ==
    /\ Decoded
    /\ maxDepth >= 1
    /\ unwraps = maxDepth
    /\ HasEmbeddedJson(result)

KeptUntouched(x, y) == y = x

KeptOrUnwrapped(x, y) ==
    IF LooksLikeJson(x.v) /\ JSONparse(x.v).ok
    THEN y = decodeUriStrings(JSONparse(x.v).val, maxDepth - 1)
    ELSE y = x

\* the value y computed for every string of x whose percent-decoding fails
\* is the string untouched (strict), or is the string kept or unwrapped
RECURSIVE MalformedLeaves(_, _, _)
MalformedLeaves(x, y, strict) ==
    CASE x.t = "string" ->
           ~decodeURIComponent(x.v).ok =>
               IF strict THEN KeptUntouched(x, y) ELSE KeptOrUnwrapped(x, y)
      [] x.t = "array"  ->
           \A i \in DOMAIN x.v : MalformedLeaves(x.v[i], y.v[i], strict)
      [] x.t = "object" ->
           \A i \in DOMAIN x.v :
               HasOwn(y.v, x.v[i].k) =>
                   MalformedLeaves(x.v[i].v, Get(y.v, x.v[i].k), strict)
      [] OTHER          -> TRUE

----------------------------------------------------------------------------
(* Properties of matchesAllFilters.                                        *)

Filtered == pc = "matchesAllFilters"

True == Bool(TRUE)

\* the filter f, taken alone, matches v
MatchesAlone(v, f) == matchesAllFilters(v, << f >>) = True

\* C8: matchesAllFilters(v, []) is true for every value v, and for every
\* filter list fs matchesAllFilters(v, fs) is true if and only if every
\* filter of fs, taken alone, matches v.
C8_FilterConjunction ==
    Filtered =>
        /\ filters = << >> => result = True
        /\ result = True <=>
              \A i \in DOMAIN filters : MatchesAlone(obj, filters[i])

\* a list whose first filter matches alone and whose second does not, with
\* the result false
C8_SecondFilterFails ==
    /\ Filtered
    /\ Len(filters) = 2
    /\ MatchesAlone(obj, filters[1])
    /\ matchesAllFilters(obj, << filters[2] >>) = Bool(FALSE)
    /\ result = Bool(FALSE)

\* the arrangements of the positions 1 .. n
Arrangements(n) ==
    {p \in [1 .. n -> 1 .. n] : \A i, j \in 1 .. n : p[i] = p[j] => i = j}

\* C9: for every value v and filter list fs, matchesAllFilters(v, fs) has
\* the same outcome for every permutation of fs, and with any filter of fs
\* repeated.
C9_OrderIndependence ==
    Filtered =>
        /\ \A p \in Arrangements(Len(filters)) :
              matchesAllFilters(obj, [i \in DOMAIN filters |-> filters[p[i]]])
                  = result
        /\ \A i \in DOMAIN filters :
              /\ matchesAllFilters(obj, Append(filters, filters[i])) = result
              /\ matchesAllFilters(obj, << filters[i] >> \o filters) = result

\* The path resolved through own members of objects and indices of arrays
\* only: [found, val].
RECURSIVE OwnPath(_, _, _)
OwnPath(value, keys, i) ==
    IF i > Len(keys) THEN [found |-> TRUE, val |-> value]
    ELSE IF value.t = "object" /\ HasOwn(value.v, keys[i])
    THEN OwnPath(Get(value.v, keys[i]), keys, i + 1)
    ELSE IF value.t = "array" /\ IndexOf(keys[i], Len(value.v)) # {}
    THEN OwnPath(value.v[CHOOSE n \in IndexOf(keys[i], Len(value.v)) : TRUE],
                 keys, i + 1)
    ELSE [found |-> FALSE, val |-> Undefined]

\* the canonical string form of a primitive
CanonicalText(r) ==
    CASE r.t = "number"  -> NumberToString(r.v[1])
      [] r.t = "boolean" -> IF r.v[1] THEN S_true ELSE S_false
      [] r.t = "null"    -> S_null
      [] r.t = "string"  -> r.v

\* the string form of r is text
HasText(r, text) ==
    IF IsContainer(r) THEN String(r) = Text(text)
    ELSE CanonicalText(r) = text

\* C10: a single filter (key, value) matches v exactly when the path key
\* resolves to a present value r and the canonical string form of r equals
\* value; an absent key never matches.
C10_SingleFilterMatch ==
    (Filtered /\ Len(filters) = 1) =>
        LET r == OwnPath(obj, SplitFrom(filters[1].key, 1, << >>, << >>), 1)
        IN  result = True <=> (r.found /\ HasText(r.val, filters[1].value))

----------------------------------------------------------------------------
(* Properties of filterLines.                                              *)

LinesFiltered == pc = "filterLines"

\* the positions of the characters of s that are not white space
Inked(s) == {i \in DOMAIN s : ~IsJsWhiteSpace(s[i])}

\* s without the white space before its first and after its last character
\* that is not white space
TrimOf(s) ==
    IF Inked(s) = {} THEN << >>
    ELSE SubSeq(s, CHOOSE i \in Inked(s) : \A j \in Inked(s) : i <= j,
                   CHOOSE i \in Inked(s) : \A j \in Inked(s) : i >= j)

\* the lines to keep: not blank, valid JSON, matching every filter
KeptLines(ls, fs) ==
    {i \in DOMAIN ls :
        /\ TrimOf(ls[i]) # << >>
        /\ JSONparse(TrimOf(ls[i])).ok
        /\ matchesAllFilters(JSONparse(TrimOf(ls[i])).val, fs) = True}

\* ls without its i-th line
WithoutLine(ls, i) == SubSeq(ls, 1, i - 1) \o SubSeq(ls, i + 1, Len(ls))

\* C11: filterLines(lines, filters) is the sequence of the trimmed texts of
\* exactly the lines that are not blank, parse as JSON and match all the
\* filters, in the original order, repeated as often as they occur; and a
\* line that is not kept can be taken away without changing the result.
C11_FilterLines ==
    LinesFiltered =>
        /\ result.t = "array"
        /\ Len(result.v) = Cardinality(KeptLines(lines, filters))
        /\ \A i \in KeptLines(lines, filters) :
              result.v[Cardinality({j \in KeptLines(lines, filters) : j <= i})]
                  = Str(TrimOf(lines[i]))
        /\ \A i \in DOMAIN lines \ KeptLines(lines, filters) :
              filterLines(WithoutLine(lines, i), filters) = result

\* a document whose first line is dropped and whose second line, written
\* inside white space, is kept
C11_TrimmedLineKept ==
    /\ LinesFiltered
    /\ Len(lines) = 2
    /\ filters # << >>
    /\ KeptLines(lines, filters) = {2}
    /\ lines[2] # TrimOf(lines[2])
    /\ result = Arr(<< Str(TrimOf(lines[2])) >>)

----------------------------------------------------------------------------
(* Properties of getNestedValue.                                           *)

Resolved == pc = "getNestedValue"

Segments(k) == SplitFrom(k, 1, << >>, << >>)

\* How a path stands in a JSON value: "found" with the value at its end;
\* "absent" when a segment is to be looked up inside null, names no own
\* member of an object or is an index outside an array; "other" when a
\* segment that is no index is applied to an array, or any segment to a
\* string, a number or a boolean.
RECURSIVE MemberPath(_, _, _)
MemberPath(value, keys, i) ==
    IF i > Len(keys) THEN [st |-> "found", val |-> value]
    ELSE IF value.t \in {"null", "undefined"}
    THEN [st |-> "absent", val |-> Undefined]
    ELSE IF value.t = "object"
    THEN IF HasOwn(value.v, keys[i])
         THEN MemberPath(Get(value.v, keys[i]), keys, i + 1)
         ELSE [st |-> "absent", val |-> Undefined]
    ELSE IF value.t = "array"
    THEN IF IndexOf(keys[i], Len(value.v)) # {}
         THEN MemberPath(
                  value.v[CHOOSE n \in IndexOf(keys[i], Len(value.v)) : TRUE],
                  keys, i + 1)
         ELSE IF IsArrayIndex(keys[i])
         THEN [st |-> "absent", val |-> Undefined]
         ELSE [st |-> "other", val |-> Undefined]
    ELSE [st |-> "other", val |-> Undefined]

\* C12: getNestedValue returns null when the whole path ends at a member
\* whose value is null, and undefined when a member of the path is absent or
\* a further segment would be looked up inside null or a missing value.
C12_NullVersusAbsent ==
    Resolved =>
        /\ MemberPath(obj, Segments(nestedKey), 1) = [st |-> "found", val |-> Null]
              => result = Null
        /\ MemberPath(obj, Segments(nestedKey), 1).st = "absent"
              => result = Undefined

\* C13: getNestedValue yields a found value only when at every step the
\* segment names an own member of the current object or is an index inside
\* the current array.
C13_OwnMembersOnly ==
    Resolved =>
        (result # Undefined => OwnPath(obj, Segments(nestedKey), 1).found)

----------------------------------------------------------------------------
(* C14: what the panel renders for a valid line.                           *)

\* the panel shows a line that parsed
RenderedValid == panel # 0 /\ ~html.empty /\ ~html.isError

\* the parsed value of the line the panel shows
ShownParsed ==
    JSONparse(trim(documents[lastEditor].text[html.lineNumber])).val

\* C14: whenever the panel shows a valid line, the value rendered is the
\* parsed line put in the custom order if one is set (whatever reorderKeys
\* is), else reordered primitives first if reorderKeys is on, else left as
\* it is; and, if uriDecode is on, decoded after that.
C14_RenderPolicy ==
    RenderedValid =>
        /\ (state.customOrder # << >> /\ ~state.uriDecode)
              => html.data = applyCustomOrder(ShownParsed, state.customOrder)
        /\ (state.customOrder = << >> /\ state.reorderKeys /\ ~state.uriDecode)
              => html.data = reorderJsonKeys(ShownParsed)
        /\ (state.customOrder = << >> /\ ~state.reorderKeys /\ ~state.uriDecode)
              => html.data = ShownParsed
        /\ (state.customOrder # << >> /\ state.uriDecode)
              => html.data = decodeUriStrings(
                     applyCustomOrder(ShownParsed, state.customOrder),
                     DefaultMaxDepth)
        /\ (state.customOrder = << >> /\ state.reorderKeys /\ state.uriDecode)
              => html.data = decodeUriStrings(reorderJsonKeys(ShownParsed),
                                              DefaultMaxDepth)
        /\ (state.customOrder = << >> /\ ~state.reorderKeys /\ state.uriDecode)
              => html.data = decodeUriStrings(ShownParsed, DefaultMaxDepth)

\* a valid line is shown with a custom order, reorderKeys and uriDecode all
\* set, and the three policies would each give another rendering
C14_CustomOrderWithReorderOn ==
    /\ RenderedValid
    /\ state.customOrder # << >> /\ state.reorderKeys /\ state.uriDecode
    /\ html.data = decodeUriStrings(
           applyCustomOrder(ShownParsed, state.customOrder), DefaultMaxDepth)
    /\ html.data # decodeUriStrings(reorderJsonKeys(ShownParsed), DefaultMaxDepth)
    /\ html.data # applyCustomOrder(ShownParsed, state.customOrder)
    /\ html.data # decodeUriStrings(ShownParsed, DefaultMaxDepth)

----------------------------------------------------------------------------
(* The calls followed cell by cell.  Objects and arrays are cells of a     *)
(* heap and are passed by reference; a call returns the heap it leaves and *)
(* its return value, [h |-> ..., r |-> ...].  Every assignment of the      *)
(* source is a write to the cell of the variable it names.                 *)

\* a reference to the cell at address a
Ref(a) == [t |-> "ref", v |-> << a >>]

IsRef(x) == x.t = "ref"

\* const o = {}
EmptyObject == [t |-> "object", v |-> << >>, setter |-> TRUE]

\* a new array cell, ld.v being its elements
StoreArray(ld) ==
    [h |-> Append(ld.h, [t |-> "array", v |-> ld.v, setter |-> FALSE]),
     r |-> Ref(Len(ld.h) + 1)]

\* a new object cell with the keys of es, ld.v being the values
StoreObject(es, ld) ==
    [h |-> Append(ld.h, [t |-> "object",
                         v |-> [i \in DOMAIN es |-> Prop(es[i].k, ld.v[i])],
                         setter |-> TRUE]),
     r |-> Ref(Len(ld.h) + 1)]

RECURSIVE Load(_, _)
RECURSIVE LoadItems(_, _, _, _)

LoadNext(items, i, acc, ld) == LoadItems(ld.h, items, i + 1, Append(acc, ld.r))

LoadItems(h, items, i, acc) ==
    IF i > Len(items) THEN [h |-> h, v |-> acc]
    ELSE LoadNext(items, i, acc, Load(h, items[i]))

\* the value x built in the heap h, as JSON.parse or the caller builds it
Load(h, x) ==
    IF x.t = "array" THEN StoreArray(LoadItems(h, x.v, 1, << >>))
    ELSE IF x.t = "object"
    THEN StoreObject(x.v, LoadItems(h, [i \in DOMAIN x.v |-> x.v[i].v], 1, << >>))
    ELSE [h |-> h, r |-> x]

\* the value that x stands for in the heap h
RECURSIVE Read(_, _)
Read(h, x) ==
    IF ~IsRef(x) THEN x
    ELSE IF h[x.v[1]].t = "array"
    THEN Arr([i \in DOMAIN h[x.v[1]].v |-> Read(h, h[x.v[1]].v[i])])
    ELSE Obj([i \in DOMAIN h[x.v[1]].v |->
                 Prop(h[x.v[1]].v[i].k, Read(h, h[x.v[1]].v[i].v))])

\* o[k] = x for the object at address a (see ObjAssign)
HeapAssign(h, a, k, x) ==
    IF k = S_proto /\ ~HasOwn(h[a].v, k) /\ h[a].setter
    THEN [h EXCEPT ![a].setter =
              CASE x.t = "null" -> FALSE
                [] IsRef(x) /\ h[x.v[1]].t = "object"
                     -> ~HasOwn(h[x.v[1]].v, S_proto)
                [] OTHER -> TRUE]
    ELSE [h EXCEPT ![a].v = ObjDefine(@, k, x)]

\* { ...first, ...second } for the objects at the addresses first and second
SpreadAt(h, first, second) ==
    [h |-> Append(h, [t |-> "object", v |-> Spread(h[first].v, h[second].v),
                      setter |-> TRUE]),
     r |-> Ref(Len(h) + 1)]

\* record[key] for an own key of the object at address record
GetAt(h, record, key) == Get(h[record].v, key)

RECURSIVE reorderJsonKeysAt(_, _)
RECURSIVE ReorderMap(_, _, _, _)
RECURSIVE ReorderLoopAt(_, _, _, _, _, _)

ReorderMapNext(a, i, acc, done) ==
    ReorderMap(done.h, a, i + 1, Append(acc, done.r))

\* obj.map(item => reorderJsonKeys(item)) from the i-th element on
ReorderMap(h, a, i, acc) ==
    IF i > Len(h[a].v) THEN StoreArray([h |-> h, v |-> acc])
    ELSE ReorderMapNext(a, i, acc, reorderJsonKeysAt(h, h[a].v[i]))

\* objects[key] = reorderJsonKeys(value), done being what the call left
ReorderObjectsNext(record, keys, i, primitives, objects, done) ==
    ReorderLoopAt(HeapAssign(done.h, objects, keys[i], done.r),
                  record, keys, i + 1, primitives, objects)

\* the loop of reorderJsonKeys from the i-th key on, then the return
ReorderLoopAt(h, record, keys, i, primitives, objects) ==
    IF i > Len(keys) THEN SpreadAt(h, primitives, objects)
    ELSE IF IsRef(GetAt(h, record, keys[i]))
    THEN ReorderObjectsNext(record, keys, i, primitives, objects,
             reorderJsonKeysAt(h, GetAt(h, record, keys[i])))
    ELSE ReorderLoopAt(
             HeapAssign(h, primitives, keys[i], GetAt(h, record, keys[i])),
             record, keys, i + 1, primitives, objects)

reorderJsonKeysAt(h, x) ==
    IF ~IsRef(x) THEN [h |-> h, r |-> x]
    ELSE IF h[x.v[1]].t = "array" THEN ReorderMap(h, x.v[1], 1, << >>)
    ELSE ReorderLoopAt(h \o << EmptyObject, EmptyObject >>, x.v[1],
                       Keys(h[x.v[1]].v), 1, Len(h) + 1, Len(h) + 2)

RECURSIVE applyCustomOrderAt(_, _, _)
RECURSIVE CustomMap(_, _, _, _, _)
RECURSIVE OrderedLoopAt(_, _, _, _, _)
RECURSIVE RemainingLoopAt(_, _, _, _, _, _, _)

CustomMapNext(a, ord, i, acc, done) ==
    CustomMap(done.h, a, ord, i + 1, Append(acc, done.r))

\* obj.map(item => applyCustomOrder(item, order)) from the i-th element on
CustomMap(h, a, ord, i, acc) ==
    IF i > Len(h[a].v) THEN StoreArray([h |-> h, v |-> acc])
    ELSE CustomMapNext(a, ord, i, acc, applyCustomOrderAt(h, h[a].v[i], ord))

\* remaining[key] = ..., done being what the inner call left
RemainingNext(record, ord, keys, i, ordered, remaining, done) ==
    RemainingLoopAt(HeapAssign(done.h, remaining, keys[i], done.r),
                    record, ord, keys, i + 1, ordered, remaining)

\* the second loop of applyCustomOrder from the i-th key on, then the return
RemainingLoopAt(h, record, ord, keys, i, ordered, remaining) ==
    IF i > Len(keys) THEN SpreadAt(h, ordered, remaining)
    ELSE IF Includes(ord, keys[i])
    THEN RemainingLoopAt(h, record, ord, keys, i + 1, ordered, remaining)
    ELSE RemainingNext(record, ord, keys, i, ordered, remaining,
             applyCustomOrderAt(h, GetAt(h, record, keys[i]), ord))

\* ordered[key] = ..., done being what the inner call left
OrderedNext(record, ord, i, ordered, done) ==
    OrderedLoopAt(HeapAssign(done.h, ordered, ord[i], done.r),
                  record, ord, i + 1, ordered)

\* the first loop of applyCustomOrder from the i-th name on, then the second
\* loop with `remaining` a new object
OrderedLoopAt(h, record, ord, i, ordered) ==
    IF i > Len(ord)
    THEN RemainingLoopAt(Append(h, EmptyObject), record, ord,
                         Keys(h[record].v), 1, ordered, Len(h) + 1)
    ELSE IF HasOwn(h[record].v, ord[i])
    THEN OrderedNext(record, ord, i, ordered,
             applyCustomOrderAt(h, GetAt(h, record, ord[i]), ord))
    ELSE OrderedLoopAt(h, record, ord, i + 1, ordered)

applyCustomOrderAt(h, x, ord) ==
    IF ~IsRef(x) THEN [h |-> h, r |-> x]
    ELSE IF h[x.v[1]].t = "array" THEN CustomMap(h, x.v[1], ord, 1, << >>)
    ELSE OrderedLoopAt(Append(h, EmptyObject), x.v[1], ord, 1, Len(h) + 1)

RECURSIVE decodeUriStringsAt(_, _, _)
RECURSIVE DecodeMap(_, _, _, _, _)
RECURSIVE DecodeLoopAt(_, _, _, _, _, _)

DecodeMapNext(a, depth, i, acc, done) ==
    DecodeMap(done.h, a, depth, i + 1, Append(acc, done.r))

\* obj.map(item => decodeUriStrings(item, maxDepth)) from the i-th element on
DecodeMap(h, a, depth, i, acc) ==
    IF i > Len(h[a].v) THEN StoreArray([h |-> h, v |-> acc])
    ELSE DecodeMapNext(a, depth, i, acc,
                       decodeUriStringsAt(h, h[a].v[i], depth))

\* result[key] = decodeUriStrings(record[key], maxDepth), done being what
\* the call left
DecodeMemberNext(record, depth, keys, i, res, done) ==
    DecodeLoopAt(HeapAssign(done.h, res, keys[i], done.r),
                 record, depth, keys, i + 1, res)

\* the loop of decodeUriStrings from the i-th key on, then the return
DecodeLoopAt(h, record, depth, keys, i, res) ==
    IF i > Len(keys) THEN [h |-> h, r |-> Ref(res)]
    ELSE DecodeMemberNext(record, depth, keys, i, res,
             decodeUriStringsAt(h, GetAt(h, record, keys[i]), depth))

\* `result` bound to the record itself
RecordItself(fresh, record) == record

\* const result = {}: `result` is the new object
NewResult(fresh, record) == fresh

\* A string has no cell: what it decodes to, embedded JSON unwrapped, is
\* built from new cells.
decodeUriStringsAt(h, x, depth) ==
    IF depth <= 0 THEN [h |-> h, r |-> x]
    ELSE IF x.t \in {"null", "undefined"} THEN [h |-> h, r |-> x]
    ELSE IF x.t = "string" THEN Load(h, decodeUriStrings(x, depth))
    ELSE IF ~IsRef(x) THEN [h |-> h, r |-> x]
    ELSE IF h[x.v[1]].t = "array" THEN DecodeMap(h, x.v[1], depth, 1, << >>)
    ELSE DecodeLoopAt(Append(h, EmptyObject), x.v[1], depth,
                      Keys(h[x.v[1]].v), 1, NewResult(Len(h) + 1, x.v[1]))

\* matchesAllFilters reads its arguments and assigns to nothing
matchesAllFiltersAt(h, x, fs) ==
    [h |-> h, r |-> matchesAllFilters(Read(h, x), fs)]

\* filterLines: the lines kept are pushed to `result`, a new array
filterLinesAt(h, ls, fs) == Load(h, filterLines(ls, fs))

S_key == << Ch.k, Ch.e, Ch.y >>
S_value == << Ch.v, Ch.a, Ch.l, Ch.u, Ch.e >>

\* the arguments of a call as the caller holds them: the value, the order
\* (an array of strings), the filters (an array of { key, value } objects)
\* and the lines (an array of strings)
Arguments(o, ord, fs, ls) ==
    Arr(<< o,
           Arr([i \in DOMAIN ord |-> Str(ord[i])]),
           Arr([i \in DOMAIN fs |->
                   Obj(<< Prop(S_key, Str(fs[i].key)),
                          Prop(S_value, Str(fs[i].value)) >>)]),
           Arr([i \in DOMAIN ls |-> Str(ls[i])]) >>)

\* the heap holds the arguments, args refers to them
Holds(ld) == heap = ld.h /\ args = ld.h[Len(ld.h)].v

HeapInit ==
    /\ pc = "ready"
    /\ result = Undefined
    /\ unwraps = 0
    /\ (ReorderInputs \/ DecodeInputs \/ FilterInputs \/ LinesInputs)
    /\ PanelAtRest
    /\ Holds(Load(<< >>, Arguments(obj, order, filters, lines)))
    /\ ret = Undefined

\* the call ends with the heap and the return value of done
Returns(done) ==
    /\ heap' = done.h
    /\ ret' = done.r
    /\ UNCHANGED <<obj, order, maxDepth, filters, lines, nestedKey, result,
                   unwraps, args, panelVars>>

Heap_reorderJsonKeys ==
    /\ pc = "ready"
    /\ pc' = "reorderJsonKeys"
    /\ Returns(reorderJsonKeysAt(heap, args[1]))

Heap_applyCustomOrder ==
    /\ pc = "ready"
    /\ pc' = "applyCustomOrder"
    /\ Returns(applyCustomOrderAt(heap, args[1], order))

Heap_decodeUriStrings ==
    /\ pc = "ready"
    /\ pc' = "decodeUriStrings"
    /\ Returns(decodeUriStringsAt(heap, args[1], maxDepth))

Heap_matchesAllFilters ==
    /\ pc = "ready"
    /\ pc' = "matchesAllFilters"
    /\ Returns(matchesAllFiltersAt(heap, args[1], filters))

Heap_filterLines ==
    /\ pc = "ready"
    /\ pc' = "filterLines"
    /\ Returns(filterLinesAt(heap, lines, filters))

HeapNext ==
    \/ Heap_reorderJsonKeys
    \/ Heap_applyCustomOrder
    \/ Heap_decodeUriStrings
    \/ Heap_matchesAllFilters
    \/ Heap_filterLines

HeapSpec == HeapInit /\ [][HeapNext]_vars

----------------------------------------------------------------------------
(* C15: the calls leave their arguments as they were.                      *)

\* C15: no call of reorderJsonKeys, applyCustomOrder, decodeUriStrings,
\* matchesAllFilters or filterLines changes a cell that existed before it:
\* the value passed, every object and array nested in it, and the order,
\* filters and lines lists are after the call what they were before.
C15_ArgumentsKept ==
    [][\A a \in DOMAIN heap : heap'[a] = heap[a]]_vars

\* decodeUriStrings has returned a new object whose members differ from
\* those of its argument, and the argument still reads as the value passed
C15_DecodedCopy ==
    /\ pc = "decodeUriStrings"
    /\ IsRef(ret) /\ ret # args[1]
    /\ heap[ret.v[1]].t = "object"
    /\ Read(heap, ret) = decodeUriStrings(obj, maxDepth)
    /\ Read(heap, ret) # obj
    /\ Read(heap, args[1]) = obj

----------------------------------------------------------------------------
(* C16: Clear All and the filtered view.                                   *)

\* the editors of filtered documents that are open
FilteredViews == visibleTextEditors \ (1 .. Len(SourceDocuments))

\* the filters are cleared and nothing asked of the host is still to come
ClearedAndSettled ==
    /\ phase = "active"
    /\ state.activeFilters = << >>
    /\ closing = 0
    /\ tasks = << >>

\* C16: once a setFilters message with an empty list was handled, and the
\* host has run what it was asked to run, no filtered view is open and no
\* filtered document is tracked, whatever the order of the messages and of
\* the steps of the asynchronous creation of the view.
C16_ClearAllCloses ==
    ClearedAndSettled => filteredDocument = 0 /\ FilteredViews = { }

----------------------------------------------------------------------------
(* C17: the settings of a session.                                         *)

\* C17: a preview that has just been opened, the panel being new, starts
\* with no active filters and with key reordering off, also when an earlier
\* panel was closed before.
C17_ResetOnClose ==
    shown = "created" =>
        /\ state.activeFilters = << >> /\ ~state.reorderKeys
        /\ html.filters = << >> /\ ~html.reorderEnabled

----------------------------------------------------------------------------
(* C18: the custom order and the global state.                             *)

\* what is stored under 'ndjson-preview.customOrder' (default [])
StoredOrder == GetStored(globalState)

\* the step changes the custom order, of the panel or in the global state
OrderChanges ==
    globalState' # globalState \/ state'.customOrder # state.customOrder

\* the step handles a setCustomOrder message, and the order is its value
SetCustomOrderHandled ==
    /\ panel # 0
    /\ \E m \in Messages :
         /\ m.command = "setCustomOrder"
         /\ state' = [state EXCEPT !.customOrder = m.value]
         /\ globalState' = Stored(m.value)

\* a PreviewPanel is constructed anew
ConstructedAnew == phase = "active" /\ phase' = "constructed"

\* C18: the custom order stored in the global state is at all times the
\* custom order of the panel; only a setCustomOrder message changes it, to
\* the value of the message; and a PreviewPanel constructed later starts
\* with the custom order that was current.
C18_CustomOrderStored ==
    /\ [](state.customOrder = StoredOrder)
    /\ [][OrderChanges => SetCustomOrderHandled]_vars
    /\ [][ConstructedAnew => state'.customOrder = state.customOrder]_vars

\* a setCustomOrder message stored x as the custom order, and a PreviewPanel
\* constructed after that starts with it
C18_StoredOrderReloaded ==
    /\ phase = "constructed" /\ steps > 0
    /\ globalState = Stored(<< S_x >>)
    /\ state.customOrder = << S_x >>

----------------------------------------------------------------------------
(* C19: blank lines and lines that do not parse.                           *)

\* the trimmed text of the line the panel shows
ShownText == trim(documents[lastEditor].text[html.lineNumber])

\* the page of the parse-error state: the error box with the parser's message
ParseErrorShown ==
    /\ html.isError
    /\ html.content =
           [class |-> "error", text |-> S_errorParsing \o ParserMessage]
    /\ html.data = NoData

\* the page of a blank line: the error box with the text of null, no message
BlankShown ==
    /\ html.isError
    /\ html.content = [class |-> "error", text |-> S_null]
    /\ html.data = NoData

\* C19: a line that is empty after trimming is shown in a state of its own,
\* without a parse, a transformation or a parse-error message, and another
\* state than a non-blank line that is not valid JSON, which is shown as an
\* error with the parser's message; update returns normally in both cases
\* and leaves the toggles, the filters and the custom order as they are.
C19_BlankLineState ==
    panel # 0 =>
        /\ ShownText = << >> => BlankShown /\ ~ParseErrorShown
        /\ (ShownText # << >> /\ ~JSONparse(ShownText).ok)
              => ParseErrorShown /\ ~BlankShown
        /\ \A e \in visibleTextEditors : Update(Here, e).state = state

\* the panel shows the blank line of the NDJSON file while reordering and
\* decoding are on
C19_BlankLineShown ==
    /\ panel # 0
    /\ documents[lastEditor].text[html.lineNumber] = << Ch.space, Ch.space >>
    /\ state.reorderKeys /\ state.uriDecode
    /\ BlankShown

----------------------------------------------------------------------------
(* C20: the webview panel.                                                 *)

\* get isVisible()
isVisible == panel # 0

\* the panel of the PreviewPanel is the one webview panel there is, if any
OnePanel ==
    /\ Cardinality(panels) <= 1
    /\ isVisible <=> panels # { }
    /\ isVisible => panels = {panel}

\* what show() does if it is called now
ShowNow ==
    /\ activeTextEditor = 0 =>
          /\ Show(Here).notice = "No active editor found"
          /\ Show(Here).panel = panel /\ Show(Here).panels = panels
          /\ Show(Here).html = html /\ Show(Here).shown = ""
    /\ (activeTextEditor # 0 /\ isVisible) =>
          /\ Show(Here).shown = "revealed"
          /\ Show(Here).panel = panel /\ Show(Here).panels = panels
    /\ (activeTextEditor # 0 /\ ~isVisible) =>
          /\ Show(Here).shown = "created"
          /\ Show(Here).panel # 0 /\ Show(Here).panels = {Show(Here).panel}

\* a step that creates a panel starts without one; a step that reveals the
\* panel or reports that there is no editor keeps the panels as they are
ShowStep ==
    /\ shown' = "created" => ~isVisible /\ panels = { } /\ panels' = {panel'}
    /\ shown' = "revealed" => isVisible /\ panel' = panel /\ panels' = panels
    /\ notice' = "No active editor found" =>
          panel' = panel /\ panels' = panels /\ html' = html /\ shown' = ""
    /\ (panel' # panel /\ panel' # 0) => shown' = "created"

\* C20: there is at most one webview panel, and isVisible tells whether
\* there is one; show() creates a panel only when there is none and reveals
\* the panel otherwise; without an active editor it reports 'No active
\* editor found', creates nothing and changes nothing that is visible; once
\* the panel was disposed of, show() creates a new one.
C20_SinglePanel ==
    /\ [](OnePanel /\ ShowNow)
    /\ [][ShowStep]_vars

\* a new panel was created after an earlier one was disposed of (word wrap
\* was switched on through the earlier one)
C20_PanelCreatedAgain ==
    /\ shown = "created" /\ state.wordWrap
    /\ isVisible /\ panels = {panel}

----------------------------------------------------------------------------
(* C21: the listeners of activate.                                         *)

\* the page update() renders for the editor e: its current line under the
\* current state
RenderedFor(e) == Render(state, LineText(Here, e), selection[e])

\* the page of the panel after the step is the one update() renders for the
\* editor e from the state, the documents and the selections after the step
RenderedAfter(e) ==
    \E st \in {state'} : \E docs \in {documents'} : \E sel \in {selection'} :
        html' = Render(st, trim(docs[e].text[sel[e] + 1]), sel[e])

\* the editor shows an NDJSON document
ShowsJsonl(e) == e # 0 /\ documents[e].languageId = "jsonl"

\* the host stays active through the step (a reload ends the session)
Listening == phase = "active" /\ phase' = "active"

\* the panel and its page are the ones before the step
PreviewKept == panel' = panel /\ panels' = panels /\ html' = html

\* a step in which the selection of editor e changes
SelectionStep(e) ==
    /\ (~ShowsJsonl(e)) => PreviewKept /\ lastEditor' = lastEditor
    /\ (ShowsJsonl(e) /\ ~isVisible) => PreviewKept /\ panel' = 0
    /\ (ShowsJsonl(e) /\ isVisible) =>
          /\ panel' = panel /\ panels' = panels
          /\ lastEditor' = e
          /\ RenderedAfter(e)

\* a step in which the editor e, or none (0), becomes the active one
ActiveEditorStep(e) ==
    /\ (~ShowsJsonl(e)') => PreviewKept /\ lastEditor' = lastEditor
    /\ (ShowsJsonl(e)' /\ ~isVisible) =>
          /\ shown' = "created"
          /\ panel' # 0 /\ panels' = {panel'}
          /\ lastEditor' = e
          /\ RenderedAfter(e)
    /\ (ShowsJsonl(e)' /\ isVisible) =>
          /\ panel' = panel /\ panels' = panels /\ shown' = ""
          /\ lastEditor' = e
          /\ RenderedAfter(e)

\* C21: a selection change or a change of the active editor whose editor is
\* undefined or does not show a 'jsonl' document creates no panel and leaves
\* the page as it is; a selection change in a jsonl editor renders the page
\* again only while the preview is visible; a change to a jsonl editor opens
\* the preview when it is not visible and otherwise renders the page of the
\* one panel again, no second panel being created.
C21_Listeners ==
    [][Listening =>
         /\ \A e \in Editors :
              selection'[e] # selection[e] => SelectionStep(e)
         /\ \A e \in Editors \cup {0} :
              (activeTextEditor' = e /\ activeTextEditor # e) =>
                  ActiveEditorStep(e)]_vars

\* the user went from the NDJSON editor to the plain text editor and moved
\* the cursor of the NDJSON editor: the preview still shows the page of the
\* NDJSON editor, rendered for the line the cursor went to
C21_PlainEditorIgnored ==
    /\ isVisible /\ activeTextEditor = 2 /\ lastEditor = 1
    /\ selection[1] = 2 /\ html = RenderedFor(1)
    /\ Cardinality(panels) = 1

----------------------------------------------------------------------------
(* C22: the order of the keys within their groups.                         *)

\* the keys of ys are keys of xs, each once, and two keys of ys that
\* InGroup puts together come in ys in the order they have in xs
KeepsOrder(xs, ys, InGroup(_)) ==
    /\ KeySet(ys) \subseteq KeySet(xs)
    /\ Cardinality(KeySet(ys)) = Len(ys)
    /\ \A i, j \in DOMAIN ys :
          ( /\ InGroup(ys[i].k) /\ InGroup(ys[j].k)
            /\ IndexOfKey(xs, ys[i].k) < IndexOfKey(xs, ys[j].k) )
          => i < j

\* in every object of y, the result of reorderJsonKeys(x), the keys with
\* primitive values are in the order they have in x, and so are the keys
\* with container values
RECURSIVE StableBuckets(_, _)
StableBuckets(x, y) ==
    /\ x.t = y.t
    /\ x.t = "array" =>
          /\ Len(x.v) = Len(y.v)
          /\ \A i \in DOMAIN x.v : StableBuckets(x.v[i], y.v[i])
    /\ x.t = "object" =>
          /\ LET Primitive(k) == ~IsContainer(Get(x.v, k))
                 Container(k) == IsContainer(Get(x.v, k))
             IN  /\ KeepsOrder(x.v, y.v, Primitive)
                 /\ KeepsOrder(x.v, y.v, Container)
          /\ \A i \in DOMAIN y.v :
                StableBuckets(Get(x.v, y.v[i].k), y.v[i].v)

\* in every object of y, the result of applyCustomOrder(x, ord), the keys
\* that ord does not name are in the order they have in x, and every key is
\* a key of x
RECURSIVE StableRemaining(_, _, _)
StableRemaining(x, y, ord) ==
    /\ x.t = y.t
    /\ x.t = "array" =>
          /\ Len(x.v) = Len(y.v)
          /\ \A i \in DOMAIN x.v : StableRemaining(x.v[i], y.v[i], ord)
    /\ x.t = "object" =>
          /\ LET NotNamed(k) == ~Includes(ord, k)
             IN  KeepsOrder(x.v, y.v, NotNamed)
          /\ \A i \in DOMAIN y.v :
                StableRemaining(Get(x.v, y.v[i].k), y.v[i].v, ord)

\* C22: both policies are stable within their groups: in reorderJsonKeys(o)
\* the keys with primitive values keep their relative order and so do the
\* keys with container values; in applyCustomOrder(o, order) the keys that
\* order does not name keep their relative order, and a name of order that
\* is no key of o makes no key in the result.
C22_StableGroups ==
    /\ pc = "reorderJsonKeys" => StableBuckets(obj, result)
    /\ pc = "applyCustomOrder" => StableRemaining(obj, result, order)

\* applyCustomOrder({"b":{},"x":0,"a":null,"1":[]}, ["z","b"]) returned an
\* object with the keys 1, b, x, a: no key z, and 1, x, a as they were
C22_RemainingInPlace ==
    /\ pc = "applyCustomOrder"
    /\ obj = O_fourKeys /\ order = << S_z, S_b >>
    /\ Keys(obj.v) = << S_1, S_b, S_x, S_a >>
    /\ Keys(result.v) = << S_1, S_b, S_x, S_a >>

----------------------------------------------------------------------------
(* C23: what a string leaf becomes.                                        *)

\* the first character of text that is not white space is { or [
StartsContainer(text) ==
    \E i \in DOMAIN text :
        /\ text[i] \in {Ch.lbrace, Ch.lbracket}
        /\ \A j \in 1 .. i - 1 : IsJsWhiteSpace(text[j])

\* y is what the claim gives for a string whose percent-decoding gave
\* decoded, depth being the remaining budget
LeafBecomes(decoded, y, depth) ==
    /\ IF StartsContainer(decoded) /\ JSONparse(decoded).ok
       THEN y = decodeUriStrings(JSONparse(decoded).val, depth - 1)
       ELSE y = Str(decoded)
    /\ y.t \in {"string", "object", "array"}

\* the value y computed for every string leaf of x whose percent-decoding
\* succeeds is the one the claim gives
RECURSIVE DecodedLeaves(_, _, _)
DecodedLeaves(x, y, depth) ==
    CASE x.t = "string" ->
           decodeURIComponent(x.v).ok =>
               LeafBecomes(decodeURIComponent(x.v).s, y, depth)
      [] x.t = "array"  ->
           /\ y.t = "array" /\ Len(y.v) = Len(x.v)
           /\ \A i \in DOMAIN x.v : DecodedLeaves(x.v[i], y.v[i], depth)
      [] x.t = "object" ->
           /\ y.t = "object"
           /\ \A i \in DOMAIN x.v :
                 HasOwn(y.v, x.v[i].k) =>
                     DecodedLeaves(x.v[i].v, Get(y.v, x.v[i].k), depth)
      [] OTHER          -> TRUE

\* C23: with a budget above 0, a string leaf whose percent-decoding
\* succeeds becomes the parsed value, decoded with maxDepth - 1, when the
\* first character of the decoded text that is not white space is { or [
\* and the text parses as JSON, and becomes the decoded string otherwise (a
\* text that does not parse, or "1" or "true"); so it becomes a string, an
\* object or an array, never a number, a boolean or null.
C23_StringLeaf ==
    (Decoded /\ maxDepth > 0) => DecodedLeaves(obj, result, maxDepth)

\* the string %5B%22%2541%22%2C1%5D was decoded to ["%41",1], parsed, and
\* the array decoded in its turn: ["A",1]
C23_EncodedArrayUnwrapped ==
    /\ Decoded
    /\ maxDepth = 2
    /\ obj = Str(encodeURIComponent(J_arr41))
    /\ result = Arr(<< Str(<< 65 >>), Num(1) >>)

----------------------------------------------------------------------------
(* C24: what uses up the budget.                                           *)

\* y is x decoded with the whole budget depth at every item and member,
\* whatever the nesting of arrays and objects and whatever was unwrapped
\* beside it: only the unwrap of a string takes one from the budget of what
\* the string held
RECURSIVE FullBudget(_, _, _)
FullBudget(x, y, depth) ==
    IF depth <= 0 THEN y = x
    ELSE CASE x.t = "string" ->
                IF /\ StartsContainer(DecodedOrOriginal(x.v))
                   /\ JSONparse(DecodedOrOriginal(x.v)).ok
                THEN FullBudget(JSONparse(DecodedOrOriginal(x.v)).val, y,
                                depth - 1)
                ELSE y = Str(DecodedOrOriginal(x.v))
           [] x.t = "array"  ->
                /\ y.t = "array" /\ Len(y.v) = Len(x.v)
                /\ \A i \in DOMAIN x.v : FullBudget(x.v[i], y.v[i], depth)
           [] x.t = "object" ->
                /\ y.t = "object"
                /\ \A i \in DOMAIN x.v :
                      HasOwn(y.v, x.v[i].k) =>
                          FullBudget(x.v[i].v, Get(y.v, x.v[i].k), depth)
           [] OTHER          -> y = x

\* C24: going into arrays and objects and plain percent-decoding take
\* nothing from the budget: with maxDepth >= 1 a string leaf is
\* percent-decoded at any nesting of containers, deeper than maxDepth too,
\* every sibling is decoded with the whole remaining budget whatever was
\* unwrapped in the others, and the budget of a leaf is less only by the
\* unwraps on its own path.
C24_BudgetOnPath ==
    (Decoded /\ maxDepth >= 1) => FullBudget(obj, result, maxDepth)

\* with maxDepth = 2 both siblings were unwrapped twice
C24_SiblingsUnwrapped ==
    /\ Decoded
    /\ maxDepth = 2
    /\ obj = Arr(<< Str(Nested(2)), Str(Nested(2)) >>)
    /\ unwraps = 2
    /\ result.v[1] = Arr(<< Arr(<< Str(<< 65 >>), Num(1) >>) >>)
    /\ result.v[2] = result.v[1]

----------------------------------------------------------------------------
(* C25: update() without a panel.                                          *)

\* update(e), called now for any visible editor e, returns with the
\* PreviewPanel, the editors and the host as they are
UpdateChangesNothing ==
    \A e \in visibleTextEditors :
        /\ Update(Here, e) = Here
        /\ Update(Here, e).html = html
        /\ Update(Here, e).decorations = decorations
        /\ Update(Here, e).lastEditor = lastEditor

\* C25: update() called while there is no panel changes nothing: no HTML is
\* assigned, no decorations are set on the editor, and the editor is not
\* recorded as lastEditor.
C25_UpdateWithoutPanel == (~isVisible) => UpdateChangesNothing

\* the panel was closed after it had shown the NDJSON editor, and the plain
\* text editor is the active one: update() of that editor changes nothing,
\* lastEditor is still the NDJSON editor
C25_ClosedPanelUpdate ==
    /\ phase = "active" /\ ~isVisible
    /\ lastEditor = 1 /\ activeTextEditor = 2
    /\ Update(Here, activeTextEditor).lastEditor = 1
    /\ Update(Here, activeTextEditor).html = NoHtml
    /\ Update(Here, activeTextEditor).decorations[2] = { }

----------------------------------------------------------------------------
(* C26: the page after show() and after a message.                         *)

\* in v there is a last editor, and the page of the panel is the rendering
\* of its current line under the state of v
Current(v) ==
    /\ v.lastEditor # 0
    /\ v.html = Render(v.state, LineText(v, v.lastEditor),
                       v.selection[v.lastEditor])

\* the state the message m asks for: its own field set, the others kept
OwnField(m) ==
    CASE m.command = "toggleReorder"   -> [state EXCEPT !.reorderKeys = m.value]
      [] m.command = "toggleWordWrap"  -> [state EXCEPT !.wordWrap = m.value]
      [] m.command = "toggleUriDecode" -> [state EXCEPT !.uriDecode = m.value]
      [] m.command = "setCustomOrder"  -> [state EXCEPT !.customOrder = m.value]
      [] m.command = "setFilters"      -> [state EXCEPT !.activeFilters = m.value]
      [] OTHER                         -> state

\* v is the outcome of handling the message m now
Handled(m, v) ==
    /\ v.state = OwnField(m)
    /\ m.command \in Commands => Current(v)
    /\ m.command \notin Commands => v.html = html

\* what handleMessage does with each message the webview can post now
MessagesNow ==
    isVisible => \A m \in {pm \in Messages : Posted(pm)} :
                     \A v \in {handleMessage(Here, m)} : Handled(m, v)

\* show() called now leaves a panel whose page is current
ShowLeavesCurrent ==
    \A v \in {Show(Here)} : v.panel # 0 => Current(v)

\* C26 as stated: whenever a panel exists after show() has returned,
\* lastEditor is defined; after show() and after handling each of the five
\* messages the page is the rendering of the current line of lastEditor
\* under the current state; each message changes only its own field of the
\* state, and a message with an unknown command changes neither the state
\* nor the page.
C26_PageCurrent ==
    /\ isVisible => lastEditor # 0
    /\ MessagesNow
    /\ ShowLeavesCurrent

\* C26 as amended: the same, for a show() that finds an active editor; a
\* show() that finds none returns after its error message and leaves the
\* page it found.
C26_PageCurrentWithEditor ==
    [](/\ isVisible => lastEditor # 0
       /\ MessagesNow
       /\ activeTextEditor # 0 => ShowLeavesCurrent
       /\ activeTextEditor = 0 => Show(Here).html = html)

\* URI decoding was switched on by a message while the preview showed the
\* first line of the NDJSON editor: the page is the one of that line with
\* %41 decoded
C26_DecodedPageShown ==
    /\ isVisible /\ lastEditor = 1 /\ selection[1] = 0
    /\ state.uriDecode /\ html.uriDecodeEnabled
    /\ Current(Here)
    /\ Get(html.data.v, S_a) = Str(<< 65 >>)

----------------------------------------------------------------------------
(* C27: values unwrapped by the decoding are not put in order.             *)

\* the panel shows a valid line, an object, with URI decoding on
RenderedDecoded ==
    RenderedValid /\ state.uriDecode /\ html.data.t = "object"

\* the parsed line as the ordering policy leaves it, before the decoding
ShownOrdered == OrderPolicy(state, ShownParsed)

\* the member named k of the text of an object starts at position i
MemberAt(text, k, i) ==
    /\ i + Len(Quote(k)) <= Len(text)
    /\ SubSeq(text, i, i + Len(Quote(k))) = Quote(k) \o << Ch.colon >>

\* the member named k1 comes before the member named k2 in the text
TextBefore(text, k1, k2) ==
    \E i \in DOMAIN text :
        /\ MemberAt(text, k1, i)
        /\ \A j \in 1 .. i : ~MemberAt(text, k2, j)

\* the keys of the object es are in the order of the members of text
InTextOrder(es, text) ==
    \A i, j \in DOMAIN es : i < j => TextBefore(text, es[i].k, es[j].k)

\* the keys of the object es are keys of the object that JSON.parse makes
\* of text, in the order they have there
InParsedOrder(es, text) ==
    \A parsed \in {JSONparse(text).val.v} :
        /\ KeySet(es) \subseteq KeySet(parsed)
        /\ \A i, j \in DOMAIN es :
              i < j => IndexOfKey(parsed, es[i].k) < IndexOfKey(parsed, es[j].k)

\* The keys of the rendered object are where the ordering put them, and
\* every member whose string was unwrapped into an object holds that object
\* with its keys as Placed(keys, text) says, text being the embedded text
UnwrappedAsPlaced(Placed(_, _)) ==
    /\ Keys(html.data.v) = Keys(ShownOrdered.v)
    /\ \A i \in DOMAIN ShownOrdered.v :
          \A x \in {ShownOrdered.v[i].v} : \A y \in {html.data.v[i].v} :
              (IsEmbeddedJson(x) /\ y.t = "object") =>
                  Placed(y.v, DecodedOrOriginal(x.v))

\* C27 as stated: the decoding runs after the ordering, so an object
\* unwrapped from an embedded JSON string is never put in order: its keys
\* keep the order of the embedded JSON text, and the key whose string was
\* unwrapped keeps the place it had among the keys with primitive values.
C27_TextOrderKept == RenderedDecoded => UnwrappedAsPlaced(InTextOrder)

\* C27 as amended: the keys of the unwrapped object are in the order of the
\* object JSON.parse makes of the embedded text (integer-like keys first,
\* ascending, then the other keys in text order), which no ordering policy
\* touches; the key whose string was unwrapped keeps its place.
C27_ParsedOrderKept == RenderedDecoded => UnwrappedAsPlaced(InParsedOrder)

\* with reorderKeys and uriDecode on, the page shows the unwrapped object
\* under z before the number under x, and inside it the object under b
\* before the number under x: primitives are not first, around it or in it
C27_PrimitivesNotFirst ==
    /\ RenderedDecoded
    /\ state.reorderKeys /\ state.customOrder = << >>
    /\ Keys(html.data.v) = << S_z, S_x >>
    /\ Keys(Get(html.data.v, S_z).v) = << S_1, S_b, S_x >>
    /\ ~PrimitivesFirstDeep(html.data)
    /\ ~PrimitivesFirstDeep(Get(html.data.v, S_z))

----------------------------------------------------------------------------
(* C28: the document createFilteredView filters.                           *)

\* the document is one that createFilteredView opened
IsFilteredView(e) == e > Len(SourceDocuments)

\* the step called createFilteredView: a filtered view is being opened
ViewRequested == Len(tasks') > Len(tasks)

\* the view requested in the step holds the lines of the document of
\* lastEditor that pass the filters just set, and the line count told with
\* it is that of the document of lastEditor
FiltersLastEditor ==
    /\ lastEditor # 0 /\ lastEditor' = lastEditor
    /\ \A t \in {tasks'[Len(tasks')]} : \A fs \in {state'.activeFilters} :
          /\ t.text = ContentLines(
                          Texts(filterLines(documents[lastEditor].text, fs).v))
          /\ t.lineCount = Len(documents[lastEditor].text)

\* C28: createFilteredView filters the document of lastEditor, the editor
\* update() rendered last; the filtered view is a 'jsonl' document shown
\* with focus, so once the host reports it as the active editor it is
\* lastEditor, and a later setFilters message filters the filtered document,
\* and tells its line count, instead of the source document.
C28_FiltersLastEditor ==
    [][Listening =>
         /\ ViewRequested => FiltersLastEditor
         /\ \A e \in Editors :
              (activeTextEditor' = e /\ activeTextEditor # e
                 /\ IsFilteredView(e))
              => (lastEditor' = e /\ documents'[e].languageId = "jsonl")]_vars

\* setFilters came again while the filtered view was the last editor: the
\* view being opened is made of the one line of the filtered view, its line
\* count 1 and not the 3 of the source document
C28_FilteredViewFiltered ==
    /\ tasks # << >>
    /\ IsFilteredView(lastEditor)
    /\ tasks[Len(tasks)].at = "openTextDocument"
    /\ tasks[Len(tasks)].lineCount = Len(documents[lastEditor].text)
    /\ tasks[Len(tasks)].lineCount < Len(documents[1].text)

====
